---- MODULE Spec2Model ----
(***************************************************************************)
(* A model of libyarp/idl: the parser (parser.go, the token cursor and     *)
(* File) as a step machine over a token sequence, and the file-set         *)
(* resolver (FileSet.Load) as a step machine over a small disk.            *)
(*                                                                         *)
(* Go slices are modelled as (arr, len, cap) views into backing arrays     *)
(* kept in commentsMem / annotationsMem, so that p.comments[:0] followed   *)
(* by append behaves as it does in Go (it writes into the same array).    *)
(***************************************************************************)
EXTENDS Integers, Sequences, FiniteSets, TLC

VARIABLES
    tokens,          \* tokenList.tokens: the input of Parse
    written,         \* what the input was written from (not read by the parser)
    current,         \* tokenList.current (0-based, as in the source)
    comments,        \* parser.comments: a slice
    annotations,     \* parser.annotations: a slice
    commentsMem,     \* backing arrays of []string slices
    annotationsMem,  \* backing arrays of []AnnotationValue slices
    file,            \* parser.file
    pc,              \* where the parser is: package, imports, run, message, oneof, service, done, error, hang
    m,               \* local m of parser.message
    oneof,           \* locals of parser.parseOneOf
    s,               \* local s of parser.service
    err,             \* the error Parse returned
    fs,              \* the FileSet
    disk,            \* the files on disk (path -> parse result)
    stack,           \* call stack of Load / processImports
    outcome,         \* how the last Load ended
    pre,             \* the FileSet when the running Load was called
    scans,           \* how often each file was scanned and parsed in the running Load
    loads,           \* how many times Load has been called
    scanner,         \* the Scanner: tokens, data, start, current
    scanResult       \* how far Scan is: idle, scanning, done, error (with the error), panic

parserVars == <<tokens, written, current, comments, annotations, commentsMem, annotationsMem,
                file, pc, m, oneof, s, err>>
loaderVars == <<fs, disk, stack, outcome, pre, scans, loads>>
scannerVars == <<scanner, scanResult>>
vars == <<parserVars, loaderVars, scannerVars>>

----------------------------------------------------------------------------
(* Tokens *)

Tok(t, v, l, c) == [Type |-> t, Value |-> v, Line |-> l, Column |-> c]

\* Token{Type: EOF}: the sentinel peek returns past the end
EOFSentinel == Tok("EOF", "", 0, 0)

is(t, o) == t.Type = o

peekAt(cur) == IF cur >= Len(tokens) THEN EOFSentinel ELSE tokens[cur + 1]

peek == peekAt(current)

\* Only called with current >= 1 and current <= Len(tokens) (after the package
\* clause, at a LineBreak or Comment token), where it does not index out of range.
peekPreviousAt(cur) == IF cur = 0 THEN tokens[1] ELSE tokens[cur]

peekPrevious == peekPreviousAt(current)

ParseError(cur, msg) == [kind |-> "ParseError", Token |-> peekAt(cur), Message |-> msg]

PlainError(msg) == [kind |-> "errorString", Token |-> EOFSentinel, Message |-> msg]

NoError == [kind |-> "nil", Token |-> EOFSentinel, Message |-> ""]

offsetBetween(a, b) ==
    [StartsAt |-> [Line |-> a.Line, Column |-> a.Column],
     EndsAt |-> [Line |-> b.Line, Column |-> b.Column]]

ZeroOffset == offsetBetween(EOFSentinel, EOFSentinel)

----------------------------------------------------------------------------
(* Go slices: append and s[:0] *)

NilSlice == [arr |-> 0, len |-> 0, cap |-> 0]

\* the elements a slice shows
View(mem, sl) == IF sl.arr = 0 THEN <<>> ELSE SubSeq(mem[sl.arr], 1, sl.len)

Pad(n, zero) == [i \in 1..n |-> zero]

\* runtime growslice for small slices: capacity 1, then doubling
GrowCap(cap) == IF cap = 0 THEN 1 ELSE 2 * cap

\* append(sl, v): in place while len < cap, else a new array
AppendMem(mem, sl, v, zero) ==
    IF sl.len < sl.cap
    THEN [mem EXCEPT ![sl.arr][sl.len + 1] = v]
    ELSE Append(mem, View(mem, sl) \o <<v>> \o Pad(GrowCap(sl.cap) - sl.len - 1, zero))

AppendSlice(mem, sl, v) ==
    IF sl.len < sl.cap
    THEN [sl EXCEPT !.len = sl.len + 1]
    ELSE [arr |-> Len(mem) + 1, len |-> sl.len + 1, cap |-> GrowCap(sl.cap)]

\* sl[:0]
Reslice0(sl) == [sl EXCEPT !.len = 0]

ZeroAnnotation == [Offset |-> ZeroOffset, Name |-> "", Value |-> <<>>]

\* AnnotationCollection.FindByName: whether some element has the name
FindByName(coll, name) == \E i \in 1..Len(coll) : coll[i].Name = name

\* the first element with the name (first match wins)
FindByNameValue(coll, name) ==
    coll[CHOOSE i \in 1..Len(coll) :
            coll[i].Name = name /\ \A j \in 1..(i - 1) : coll[j].Name # name]

----------------------------------------------------------------------------
(* File *)

EmptyNames == [n \in {} |-> ZeroOffset]

NewFile == [Tree |-> <<>>, Package |-> "", DeclaredMessages |-> <<>>,
            DeclaredServices |-> <<>>, ImportedFiles |-> <<>>,
            declaredNames |-> EmptyNames]

\* filepath.Clean on the import paths of the inputs: "./x" and "x/." name x
Clean(path) ==
    CASE path = "./foo" -> "foo"
      [] path = "foo/." -> "foo"
      [] path = "" -> "."
      [] OTHER -> path

\* File.push
push(f, val) ==
    LET g == [f EXCEPT !.Tree = Append(@, val)] IN
    CASE val.kind = "Package" -> [g EXCEPT !.Package = val.Name]
      [] val.kind = "Import" -> [g EXCEPT !.ImportedFiles = Append(@, Clean(val.Path))]
      [] val.kind = "Message" ->
            [g EXCEPT !.DeclaredMessages = Append(@, val.Name),
                      !.declaredNames = (val.Name :> val) @@ @]
      [] val.kind = "Service" ->
            [g EXCEPT !.DeclaredServices = Append(@, val.Name),
                      !.declaredNames = (val.Name :> val) @@ @]
      [] OTHER -> g

\* isImported comparing the path as written
isImported_AsWritten(f, path) ==
    \E i \in 1..Len(f.ImportedFiles) : f.ImportedFiles[i] = path

isImported(f, path) ==
    \E i \in 1..Len(f.ImportedFiles) : f.ImportedFiles[i] = Clean(path)

\* isDefined looking at the messages only
isDefined_MessagesOnly(f, name) ==
    \E i \in 1..Len(f.DeclaredMessages) : f.DeclaredMessages[i] = name

isDefined(f, name) == name \in DOMAIN f.declaredNames

\* File.MessageByName / File.ServiceByName: the ok result
MessageByName(f, name) ==
    name \in DOMAIN f.declaredNames /\ f.declaredNames[name].kind = "Message"

ServiceByName(f, name) ==
    name \in DOMAIN f.declaredNames /\ f.declaredNames[name].kind = "Service"

----------------------------------------------------------------------------
(* Type grammar *)

stringToPrimitive ==
    [n \in {"string", "uint8", "uint16", "uint32", "uint64", "int8", "int16",
            "int32", "int64", "float32", "float64", "bool"} |->
        CASE n = "string" -> "String"
          [] n = "uint8" -> "Uint8"
          [] n = "uint16" -> "Uint16"
          [] n = "uint32" -> "Uint32"
          [] n = "uint64" -> "Uint64"
          [] n = "int8" -> "Int8"
          [] n = "int16" -> "Int16"
          [] n = "int32" -> "Int32"
          [] n = "int64" -> "Int64"
          [] n = "float32" -> "Float32"
          [] n = "float64" -> "Float64"
          [] n = "bool" -> "Bool"]

Primitive(k) == [kind |-> "Primitive", Kind |-> k]
Array(t) == [kind |-> "Array", Of |-> t]
Map(k, v) == [kind |-> "Map", Key |-> k, Value |-> v]
Unresolved(n) == [kind |-> "Unresolved", Name |-> n]
NilType == [kind |-> "nil"]

\* what a sub-parser returns: the error (or nil), its value, and the cursor it leaves
Ret(e, v, cur) == [err |-> e, val |-> v, cur |-> cur]

\* for p.tokens.peek().is(Identifier) || p.tokens.peek().is(Dot) { v = append(v, advance().Value) }
\* followed by strings.Join(v, ""): the joined text and the cursor after the loop
RECURSIVE joinName(_, _)
joinName(acc, cur) ==
    IF is(peekAt(cur), "Identifier") \/ is(peekAt(cur), "Dot")
    THEN joinName(acc \o peekAt(cur).Value, cur + 1)
    ELSE Ret(NoError, acc, cur)

parseMapKey(cur) ==
    IF ~is(peekAt(cur), "Identifier")
    THEN Ret(ParseError(cur, "unexpected token"), "Invalid", cur)
    ELSE LET k == peekAt(cur).Value IN
         IF k \notin DOMAIN stringToPrimitive \/ stringToPrimitive[k] = "Bool"
         THEN Ret(ParseError(cur + 1, "invalid type for map key, expected one of"),
                  "Invalid", cur + 1)
         ELSE Ret(NoError, stringToPrimitive[k], cur + 1)

RECURSIVE parseType(_)
RECURSIVE parseMapType(_)
RECURSIVE parseArrayType(_)

parseMapType(cur) ==
    LET k == parseMapKey(cur) IN
    IF k.err # NoError THEN Ret(k.err, NilType, k.cur)
    ELSE IF ~is(peekAt(k.cur), "Comma") THEN Ret(PlainError("expected ','"), NilType, k.cur)
    ELSE LET v == parseType(k.cur + 1) IN
         IF v.err # NoError THEN Ret(v.err, NilType, v.cur)
         ELSE IF ~is(peekAt(v.cur), "CloseAngled")
              THEN Ret(PlainError("expected '>'"), NilType, v.cur)
              ELSE Ret(NoError, Map(k.val, v.val), v.cur + 1)

\* parseArrayType returning the element type itself
parseArrayType_Unwrapped(cur) ==
    IF ~is(peekAt(cur), "OpenAngled") THEN Ret(ParseError(cur, "expected '<"), NilType, cur)
    ELSE LET t == parseType(cur + 1) IN
         IF t.err # NoError THEN Ret(t.err, NilType, t.cur)
         ELSE IF ~is(peekAt(t.cur), "CloseAngled")
              THEN Ret(ParseError(t.cur, "expected '>"), NilType, t.cur)
              ELSE Ret(NoError, t.val, t.cur + 1)

parseArrayType(cur) ==
    IF ~is(peekAt(cur), "OpenAngled") THEN Ret(ParseError(cur, "expected '<"), NilType, cur)
    ELSE LET t == parseType(cur + 1) IN
         IF t.err # NoError THEN Ret(t.err, NilType, t.cur)
         ELSE IF ~is(peekAt(t.cur), "CloseAngled")
              THEN Ret(ParseError(t.cur, "expected '>"), NilType, t.cur)
              ELSE Ret(NoError, Array(t.val), t.cur + 1)

parseType(cur) ==
    IF ~is(peekAt(cur), "Identifier") THEN Ret(ParseError(cur, "unexpected token"), NilType, cur)
    ELSE LET t == peekAt(cur).Value IN
         IF t \in DOMAIN stringToPrimitive THEN Ret(NoError, Primitive(stringToPrimitive[t]), cur + 1)
         ELSE IF t = "array" THEN parseArrayType(cur + 1)
         ELSE IF t = "map" THEN parseMapType(cur + 1)
         ELSE LET n == joinName(t, cur + 1) IN Ret(NoError, Unresolved(n.val), n.cur)

\* strconv.Atoi on the Number texts of the inputs; a text of more digits than an
\* int holds is a range error
Atoi(v) ==
    CASE v = "0" -> [ok |-> TRUE, n |-> 0]
      [] v = "1" -> [ok |-> TRUE, n |-> 1]
      [] v = "2" -> [ok |-> TRUE, n |-> 2]
      [] v = "3" -> [ok |-> TRUE, n |-> 3]
      [] v = "4" -> [ok |-> TRUE, n |-> 4]
      [] v = "5" -> [ok |-> TRUE, n |-> 5]
      [] OTHER -> [ok |-> FALSE, n |-> 0]

parseIndex(cur) ==
    IF ~is(peekAt(cur), "Equal") THEN Ret(ParseError(cur, "expected '='"), 0, cur)
    ELSE IF ~is(peekAt(cur + 1), "Number") THEN Ret(ParseError(cur + 1, "expected number"), 0, cur + 1)
    ELSE LET a == Atoi(peekAt(cur + 1).Value) IN
         IF a.ok THEN Ret(NoError, a.n, cur + 2)
         ELSE Ret(PlainError("strconv.Atoi: value out of range"), 0, cur + 2)

----------------------------------------------------------------------------
(* Parser: the nodes it builds *)

Package(off, name) == [kind |-> "Package", Offset |-> off, Name |-> name]

Import(off, path) == [kind |-> "Import", Offset |-> off, Path |-> path]

Message(off, name, cm, an, fields) ==
    [kind |-> "Message", Offset |-> off, Name |-> name, Comments |-> cm,
     Annotations |-> an, Fields |-> fields]

Service(off, name, cm, an, methods) ==
    [kind |-> "Service", Offset |-> off, Name |-> name, Comments |-> cm,
     Annotations |-> an, Methods |-> methods]

Field(off, name, cm, an, type, index) ==
    [kind |-> "Field", Offset |-> off, Name |-> name, Comments |-> cm,
     Annotations |-> an, Type |-> type, Index |-> index]

OneOfField(off, cm, an, index, items) ==
    [kind |-> "OneOfField", Offset |-> off, Comments |-> cm, Annotations |-> an,
     Index |-> index, Items |-> items]

Method(off, name, cm, an, arg, ret, stream) ==
    [kind |-> "Method", Offset |-> off, Name |-> name, Comments |-> cm,
     Annotations |-> an, ArgumentType |-> arg, ReturnType |-> ret,
     ReturnStreaming |-> stream]

AnnotationValue(off, name, value) == [Offset |-> off, Name |-> name, Value |-> value]

\* the locals of message(), service() and parseOneOf() while none is running
NoMessage == [start |-> EOFSentinel, node |-> Message(ZeroOffset, "", NilSlice, NilSlice, <<>>)]
NoService == [start |-> EOFSentinel, node |-> Service(ZeroOffset, "", NilSlice, NilSlice, <<>>)]
NoOneOf == [start |-> EOFSentinel, comments |-> NilSlice, annotations |-> NilSlice, items |-> <<>>]

----------------------------------------------------------------------------
(* Parser: steps *)

\* return an error from Parse with the cursor where it was detected
Fail(e, cur) ==
    /\ pc' = "error"
    /\ err' = e
    /\ current' = cur
    /\ UNCHANGED <<tokens, written, comments, annotations, commentsMem, annotationsMem,
                   file, m, oneof, s>>

\* parser.flushMeta
flushMeta ==
    /\ comments' = Reslice0(comments)
    /\ annotations' = Reslice0(annotations)
    /\ UNCHANGED <<commentsMem, annotationsMem>>

\* for p.tokens.peek().is(LineBreak) || p.tokens.peek().is(Comment) { advance }
RECURSIVE skipBlank(_)
skipBlank(cur) ==
    IF is(peekAt(cur), "LineBreak") \/ is(peekAt(cur), "Comment")
    THEN skipBlank(cur + 1)
    ELSE cur

parsePackage ==
    /\ UNCHANGED <<loaderVars, scannerVars>>
    /\ pc = "package"
    /\ LET c0 == skipBlank(current) IN
       IF ~is(peekAt(c0), "Identifier") THEN Fail(ParseError(c0, "expected identifier"), c0)
       ELSE IF peekAt(c0).Value # "package"
       THEN Fail(ParseError(c0, "unexpected " \o peekAt(c0).Value \o ", expected package identifier"), c0)
       ELSE LET start == peekAt(c0)
                n == joinName(peekAt(c0 + 1).Value, c0 + 2)
            IN IF ~is(peekAt(n.cur), "Semi") THEN Fail(ParseError(n.cur, "expected ';'"), n.cur)
               ELSE /\ file' = push(file, Package(offsetBetween(start, peekAt(n.cur)), n.val))
                    /\ current' = n.cur + 1
                    /\ pc' = "imports"
                    /\ UNCHANGED <<tokens, written, comments, annotations, commentsMem,
                                   annotationsMem, m, oneof, s, err>>

\* parseImports, inner loop: a linebreak
parseImportsLineBreak ==
    /\ UNCHANGED <<loaderVars, scannerVars>>
    /\ pc = "imports"
    /\ is(peek, "LineBreak")
    /\ IF is(peekPrevious, "LineBreak") THEN flushMeta
       ELSE UNCHANGED <<comments, annotations, commentsMem, annotationsMem>>
    /\ current' = current + 1
    /\ UNCHANGED <<tokens, written, file, pc, m, oneof, s, err>>

\* parseImports, inner loop: a comment (appended whatever precedes it)
parseImportsComment ==
    /\ UNCHANGED <<loaderVars, scannerVars>>
    /\ pc = "imports"
    /\ is(peek, "Comment")
    /\ commentsMem' = AppendMem(commentsMem, comments, peek.Value, "")
    /\ comments' = AppendSlice(commentsMem, comments, peek.Value)
    /\ current' = current + 1
    /\ UNCHANGED <<tokens, written, annotations, annotationsMem, file, pc, m, oneof, s, err>>

\* parseImports: the next token is no import, the block is over
parseImportsReturn ==
    /\ UNCHANGED <<loaderVars, scannerVars>>
    /\ pc = "imports"
    /\ ~is(peek, "LineBreak") /\ ~is(peek, "Comment")
    /\ ~(is(peek, "Identifier") /\ peek.Value = "import")
    /\ pc' = "run"
    /\ UNCHANGED <<tokens, written, current, comments, annotations, commentsMem, annotationsMem,
                   file, m, oneof, s, err>>

\* parseImports: one import statement
parseImportsImport ==
    /\ UNCHANGED <<loaderVars, scannerVars>>
    /\ pc = "imports"
    /\ is(peek, "Identifier") /\ peek.Value = "import"
    /\ LET start == peek
           c1 == current + 1
           path == peekAt(c1).Value
       IN IF ~is(peekAt(c1), "StringElement")
          THEN /\ flushMeta
               /\ pc' = "error" /\ err' = ParseError(c1, "expected string") /\ current' = c1
               /\ UNCHANGED <<tokens, written, file, m, oneof, s>>
          ELSE IF isImported(file, path)
          THEN /\ flushMeta
               /\ pc' = "error" /\ err' = ParseError(c1 + 1, "duplicated import")
               /\ current' = c1 + 1
               /\ UNCHANGED <<tokens, written, file, m, oneof, s>>
          ELSE IF ~is(peekAt(c1 + 1), "Semi")
          THEN /\ flushMeta
               /\ pc' = "error" /\ err' = ParseError(c1 + 1, "expected ';'")
               /\ current' = c1 + 1
               /\ UNCHANGED <<tokens, written, file, m, oneof, s>>
          ELSE /\ flushMeta
               /\ file' = push(file, Import(offsetBetween(start, peekAt(c1 + 1)), path))
               /\ current' = c1 + 2
               /\ UNCHANGED <<tokens, written, pc, m, oneof, s, err>>

\* the loop around parseOne is running: run() until EOF, a body until its '}'
InLoop ==
    \/ pc = "run" /\ ~is(peek, "EOF")
    \/ pc \in {"message", "oneof", "service"} /\ ~is(peek, "CloseCurly")

\* parseOne, case LineBreak
parseOneLineBreak ==
    /\ UNCHANGED <<loaderVars, scannerVars>>
    /\ InLoop
    /\ is(peek, "LineBreak")
    /\ IF is(peekPrevious, "LineBreak") THEN flushMeta
       ELSE UNCHANGED <<comments, annotations, commentsMem, annotationsMem>>
    /\ current' = current + 1
    /\ UNCHANGED <<tokens, written, file, pc, m, oneof, s, err>>

\* parseOne, case Comment
parseOneComment ==
    /\ UNCHANGED <<loaderVars, scannerVars>>
    /\ InLoop
    /\ is(peek, "Comment")
    /\ IF is(peekPrevious, "LineBreak")
       THEN /\ commentsMem' = AppendMem(commentsMem, comments, peek.Value, "")
            /\ comments' = AppendSlice(commentsMem, comments, peek.Value)
       ELSE UNCHANGED <<comments, commentsMem>>
    /\ current' = current + 1
    /\ UNCHANGED <<tokens, written, annotations, annotationsMem, file, pc, m, oneof, s, err>>

\* strings.Join(val, " ")
RECURSIVE JoinSpace(_)
JoinSpace(val) ==
    IF Len(val) = 0 THEN ""
    ELSE IF Len(val) = 1 THEN val[1]
    ELSE val[1] \o " " \o JoinSpace(Tail(val))

\* parseOne, case Annotation: for !p.tokens.peek().is(CloseParen) { ... }
\* The '(' itself is not consumed before the loop. Past the end of the tokens peek
\* returns the EOF sentinel for ever and the loop does not end ("hang").
RECURSIVE annotationValues(_, _, _)
annotationValues(vals, val, cur) ==
    IF is(peekAt(cur), "CloseParen")
    THEN [status |-> "ok", cur |-> cur,
          vals |-> IF Len(val) > 0 THEN Append(vals, JoinSpace(val)) ELSE vals]
    ELSE IF cur >= Len(tokens) THEN [status |-> "hang", cur |-> cur, vals |-> vals]
    ELSE IF is(peekAt(cur), "Comma")
    THEN IF Len(vals) = 0 THEN [status |-> "error", cur |-> cur, vals |-> vals]
         ELSE annotationValues(Append(vals, JoinSpace(val)), <<>>, cur + 1)
    ELSE annotationValues(vals, Append(val, peekAt(cur).Value), cur + 1)

parseOneAnnotation ==
    /\ UNCHANGED <<loaderVars, scannerVars>>
    /\ InLoop
    /\ is(peek, "Annotation")
    /\ LET start == peek
           c1 == current + 1
           r == IF is(peekAt(c1), "OpenParen") THEN annotationValues(<<>>, <<>>, c1)
                ELSE [status |-> "plain", cur |-> c1, vals |-> <<>>]
           end == IF r.status = "ok" THEN peekAt(r.cur) ELSE start
           a == AnnotationValue(offsetBetween(start, end), start.Value, r.vals)
       IN IF r.status = "error" THEN Fail(ParseError(r.cur, "expected value"), r.cur)
          ELSE IF r.status = "hang"
          THEN /\ pc' = "hang"
               /\ UNCHANGED <<tokens, written, current, comments, annotations, commentsMem,
                              annotationsMem, file, m, oneof, s, err>>
          ELSE /\ annotationsMem' = AppendMem(annotationsMem, annotations, a, ZeroAnnotation)
               /\ annotations' = AppendSlice(annotationsMem, annotations, a)
               /\ current' = IF r.status = "ok" THEN r.cur + 1 ELSE r.cur
               /\ UNCHANGED <<tokens, written, comments, commentsMem, file, pc, m, oneof, s, err>>

\* parseOne reaches its default case
Default == InLoop /\ peek.Type \notin {"LineBreak", "Annotation", "Comment"}

\* messageOrService: the token starts neither a message nor a service
messageOrService ==
    /\ UNCHANGED <<loaderVars, scannerVars>>
    /\ pc = "run"
    /\ Default
    /\ ~(is(peek, "Identifier") /\ peek.Value \in {"message", "service"})
    /\ IF ~is(peek, "Identifier") THEN Fail(ParseError(current, "expected identifier"), current)
       ELSE IF peek.Value = "import"
       THEN Fail(ParseError(current, "imports are only allowed in the beginning of the file, after the package directive."), current)
       ELSE Fail(ParseError(current, "unexpected `" \o peek.Value \o "', expected 'message', 'service'"), current)

\* message(): up to the loop over its members
message ==
    /\ UNCHANGED <<loaderVars, scannerVars>>
    /\ pc = "run"
    /\ Default
    /\ is(peek, "Identifier") /\ peek.Value = "message"
    /\ LET start == peek
           c1 == current + 1
           name == peekAt(c1)
       IN IF ~is(name, "Identifier") THEN Fail(ParseError(c1, "expected identifier"), c1)
          ELSE IF isDefined(file, name.Value)
          THEN Fail(ParseError(c1, name.Value \o " is already defined"), c1)
          ELSE IF ~is(peekAt(c1 + 1), "OpenCurly") THEN Fail(ParseError(c1 + 1, "expected '{'"), c1 + 1)
          ELSE /\ m' = [start |-> start,
                        node |-> Message(ZeroOffset, name.Value, comments, annotations, <<>>)]
               /\ current' = c1 + 2
               /\ flushMeta
               /\ pc' = "message"
               /\ UNCHANGED <<tokens, written, file, oneof, s, err>>

\* message(): the '}' that ends the loop, and the push
messageEnd ==
    /\ UNCHANGED <<loaderVars, scannerVars>>
    /\ pc = "message"
    /\ is(peek, "CloseCurly")
    /\ file' = push(file, [m.node EXCEPT !.Offset = offsetBetween(m.start, peek)])
    /\ current' = current + 1
    /\ m' = NoMessage
    /\ pc' = "run"
    /\ UNCHANGED <<tokens, written, comments, annotations, commentsMem, annotationsMem, oneof, s, err>>

\* parseStructureField past the oneof test: name, type, index, ';'
fieldOf(cur, cm, an) ==
    LET fName == peekAt(cur)
        t == parseType(cur + 1)
        i == parseIndex(t.cur)
    IN IF t.err # NoError THEN Ret(t.err, NilType, t.cur)
       ELSE IF i.err # NoError THEN Ret(i.err, NilType, i.cur)
       ELSE IF ~is(peekAt(i.cur), "Semi") THEN Ret(ParseError(i.cur, "expected ';'"), NilType, i.cur)
       ELSE Ret(NoError,
                Field(offsetBetween(fName, peekAt(i.cur)), fName.Value, cm, an, t.val, i.val),
                i.cur + 1)

\* parseStructureField: a field of a message (allowOneOf) or of a oneof group
parseStructureField ==
    /\ UNCHANGED <<loaderVars, scannerVars>>
    /\ pc \in {"message", "oneof"}
    /\ Default
    /\ ~(pc = "message" /\ is(peek, "Identifier") /\ peek.Value = "oneof")
    /\ IF ~is(peek, "Identifier") THEN Fail(ParseError(current, "expected identifier"), current)
       ELSE IF peek.Value = "oneof"
       THEN Fail(ParseError(current, "oneof field is not allowed at this point"), current)
       ELSE LET f == fieldOf(current, comments, annotations) IN
            IF f.err # NoError THEN Fail(f.err, f.cur)
            ELSE /\ IF pc = "message"
                    THEN /\ m' = [m EXCEPT !.node.Fields = Append(@, f.val)]
                         /\ UNCHANGED oneof
                    ELSE /\ oneof' = [oneof EXCEPT !.items = Append(@, f.val)]
                         /\ UNCHANGED m
                 /\ flushMeta
                 /\ current' = f.cur
                 /\ UNCHANGED <<tokens, written, file, pc, s, err>>

\* parseOneOf: up to the loop over its items
parseOneOf ==
    /\ UNCHANGED <<loaderVars, scannerVars>>
    /\ pc = "message"
    /\ Default
    /\ is(peek, "Identifier") /\ peek.Value = "oneof"
    /\ IF ~is(peekAt(current + 1), "OpenCurly")
       THEN Fail(ParseError(current + 1, "expected '{'"), current + 1)
       ELSE /\ oneof' = [start |-> peek, comments |-> comments,
                         annotations |-> annotations, items |-> <<>>]
            /\ flushMeta
            /\ current' = current + 2
            /\ pc' = "oneof"
            /\ UNCHANGED <<tokens, written, file, m, s, err>>

\* parseOneOf: the '}' that ends the loop, the index, and the append
parseOneOfEnd ==
    /\ UNCHANGED <<loaderVars, scannerVars>>
    /\ pc = "oneof"
    /\ is(peek, "CloseCurly")
    /\ LET i == parseIndex(current + 1) IN
       IF i.err # NoError THEN Fail(i.err, i.cur)
       ELSE IF ~is(peekAt(i.cur), "Semi") THEN Fail(ParseError(i.cur, "expected ';'"), i.cur)
       ELSE /\ m' = [m EXCEPT !.node.Fields =
                        Append(@, OneOfField(offsetBetween(oneof.start, peekAt(i.cur)),
                                             oneof.comments, oneof.annotations,
                                             i.val, oneof.items))]
            /\ oneof' = NoOneOf
            /\ current' = i.cur + 1
            /\ pc' = "message"
            /\ UNCHANGED <<tokens, written, comments, annotations, commentsMem, annotationsMem,
                           file, s, err>>

\* service(): up to the loop over its methods
service ==
    /\ UNCHANGED <<loaderVars, scannerVars>>
    /\ pc = "run"
    /\ Default
    /\ is(peek, "Identifier") /\ peek.Value = "service"
    /\ LET start == peek
           c1 == current + 1
           name == peekAt(c1)
       IN IF ~is(name, "Identifier") THEN Fail(ParseError(c1, "expected identifier"), c1)
          ELSE IF isDefined(file, name.Value)
          THEN Fail(ParseError(c1, name.Value \o " is already defined"), c1)
          ELSE IF ~is(peekAt(c1 + 1), "OpenCurly") THEN Fail(ParseError(c1 + 1, "expected '{'"), c1 + 1)
          ELSE /\ s' = [start |-> start,
                        node |-> Service(ZeroOffset, name.Value, comments, annotations, <<>>)]
               /\ current' = c1 + 2
               /\ flushMeta
               /\ pc' = "service"
               /\ UNCHANGED <<tokens, written, file, m, oneof, err>>

\* service(): the '}' that ends the loop, and the push
serviceEnd ==
    /\ UNCHANGED <<loaderVars, scannerVars>>
    /\ pc = "service"
    /\ is(peek, "CloseCurly")
    /\ file' = push(file, [s.node EXCEPT !.Offset = offsetBetween(s.start, peek)])
    /\ current' = current + 1
    /\ s' = NoService
    /\ pc' = "run"
    /\ UNCHANGED <<tokens, written, comments, annotations, commentsMem, annotationsMem, m, oneof, err>>

\* parseMethod: the loop that builds reqType
\*   if reqType == "void" { reqType = advance().Value } else { reqType += advance().Value }
RECURSIVE argumentName(_, _)
argumentName(reqType, cur) ==
    IF is(peekAt(cur), "Identifier") \/ is(peekAt(cur), "Dot")
    THEN argumentName(IF reqType = "void" THEN peekAt(cur).Value
                      ELSE reqType \o peekAt(cur).Value, cur + 1)
    ELSE Ret(NoError, reqType, cur)

\* parseMethod: the optional return clause, from the token after ')'
returnClause(cur) ==
    IF is(peekAt(cur), "Semi") THEN Ret(NoError, [type |-> "void", stream |-> FALSE], cur)
    ELSE IF ~is(peekAt(cur), "Arrow")
    THEN Ret(ParseError(cur, "expected '->'"), [type |-> "", stream |-> FALSE], cur)
    ELSE LET stream == is(peekAt(cur + 1), "Identifier") /\ peekAt(cur + 1).Value = "stream"
             c2 == IF stream THEN cur + 2 ELSE cur + 1
         IN IF ~is(peekAt(c2), "Identifier")
            THEN Ret(ParseError(c2, "expected identifier"), [type |-> "", stream |-> stream], c2)
            ELSE LET n == joinName("", c2) IN
                 Ret(NoError, [type |-> n.val, stream |-> stream], n.cur)

methodOf(cur, cm, an) ==
    LET name == peekAt(cur)
        c2 == cur + 2
        arg == argumentName("void", c2)
        ret == returnClause(arg.cur + 1)
        none == [type |-> "", stream |-> FALSE]
    IN IF ~is(name, "Identifier") THEN Ret(ParseError(cur, "expected identifier"), none, cur)
       ELSE IF ~is(peekAt(cur + 1), "OpenParen")
       THEN Ret(ParseError(cur + 1, "expected '('"), none, cur + 1)
       ELSE IF ~is(peekAt(c2), "Identifier") /\ ~is(peekAt(c2), "CloseParen")
       THEN Ret(ParseError(c2, "expected identifier or ')'"), none, c2)
       ELSE IF ~is(peekAt(arg.cur), "CloseParen")
       THEN Ret(ParseError(arg.cur, "expected ')'"), none, arg.cur)
       ELSE IF ret.err # NoError THEN ret
       ELSE IF ~is(peekAt(ret.cur), "Semi") THEN Ret(ParseError(ret.cur, "expected ';'"), none, ret.cur)
       ELSE Ret(NoError,
                Method(offsetBetween(name, peekAt(ret.cur)), name.Value, cm, an,
                       arg.val, ret.val.type, ret.val.stream),
                ret.cur + 1)

\* parseMethod
parseMethod ==
    /\ UNCHANGED <<loaderVars, scannerVars>>
    /\ pc = "service"
    /\ Default
    /\ LET r == methodOf(current, comments, annotations) IN
       IF r.err # NoError THEN Fail(r.err, r.cur)
       ELSE /\ s' = [s EXCEPT !.node.Methods = Append(@, r.val)]
            /\ flushMeta
            /\ current' = r.cur
            /\ UNCHANGED <<tokens, written, file, pc, m, oneof, err>>

\* run(): the loop ends at EOF and Parse returns the file
runReturn ==
    /\ UNCHANGED <<loaderVars, scannerVars>>
    /\ pc = "run"
    /\ is(peek, "EOF")
    /\ pc' = "done"
    /\ UNCHANGED <<tokens, written, current, comments, annotations, commentsMem, annotationsMem,
                   file, m, oneof, s, err>>

ParserNext ==
    \/ parsePackage
    \/ parseImportsLineBreak
    \/ parseImportsComment
    \/ parseImportsImport
    \/ parseImportsReturn
    \/ parseOneLineBreak
    \/ parseOneComment
    \/ parseOneAnnotation
    \/ messageOrService
    \/ message
    \/ messageEnd
    \/ parseStructureField
    \/ parseOneOf
    \/ parseOneOfEnd
    \/ service
    \/ serviceEnd
    \/ parseMethod
    \/ runReturn

----------------------------------------------------------------------------
(* Inputs of Parse: token sequences, written as (Type, Value) pairs and given *)
(* positions line by line                                                     *)

Id(v) == <<"Identifier", v>>
Num(v) == <<"Number", v>>
Str(v) == <<"StringElement", v>>
Cmt(v) == <<"Comment", v>>
Ann(v) == <<"Annotation", v>>
LB == <<"LineBreak", "\n">>
Semi == <<"Semi", ";">>
Dot == <<"Dot", ".">>
Comma == <<"Comma", ",">>
Equal == <<"Equal", "=">>
Arrow == <<"Arrow", "->">>
OpenCurly == <<"OpenCurly", "{">>
CloseCurly == <<"CloseCurly", "}">>
OpenParen == <<"OpenParen", "(">>
CloseParen == <<"CloseParen", ")">>
OpenAngled == <<"OpenAngled", "<">>
CloseAngled == <<"CloseAngled", ">">>
EOF == <<"EOF", "">>

\* the tokens of raw with the line and column a scan gives them: the line is 1 plus
\* the linebreaks before the token, the column counts the tokens of its line
Positioned(raw) ==
    [i \in 1..Len(raw) |->
        LET before == {j \in 1..(i - 1) : raw[j][1] = "LineBreak"}
            lineStart == IF before = {} THEN 0
                         ELSE CHOOSE j \in before : \A k \in before : k <= j
        IN Tok(raw[i][1], raw[i][2], 1 + Cardinality(before), i - lineStart)]

RECURSIVE Flatten(_)
Flatten(seqs) == IF Len(seqs) = 0 THEN <<>> ELSE Head(seqs) \o Flatten(Tail(seqs))

\* a dotted name a.b.c as tokens
RECURSIVE DottedTokens(_)
DottedTokens(parts) ==
    IF Len(parts) = 1 THEN <<Id(parts[1])>>
    ELSE <<Id(parts[1]), Dot>> \o DottedTokens(Tail(parts))

\* a.b.c as text
RECURSIVE DottedText(_)
DottedText(parts) ==
    IF Len(parts) = 1 THEN parts[1]
    ELSE parts[1] \o "." \o DottedText(Tail(parts))

PackageLine(parts) == <<Id("package")>> \o DottedTokens(parts) \o <<Semi, LB>>

ImportLine(path) == <<Id("import"), Str(path), Semi, LB>>

\* [@a ...] name type = index ;
FieldLine(anns, name, type, index) ==
    [i \in 1..Len(anns) |-> Ann(anns[i])] \o <<Id(name)>> \o type \o <<Equal, Num(index), Semi, LB>>

MessageOpen(name) == <<Id("message"), Id(name), OpenCurly, LB>>

ServiceOpen(name) == <<Id("service"), Id(name), OpenCurly, LB>>

Close == <<CloseCurly, LB>>

\* name ( [arg] ) [ -> [stream] ret ] ;   (arg and ret: dotted names, <<>> when absent)
MethodLine(name, arg, stream, ret) ==
    <<Id(name), OpenParen>>
    \o (IF arg = <<>> THEN <<>> ELSE DottedTokens(arg))
    \o <<CloseParen>>
    \o (IF ret = <<>> THEN <<>>
        ELSE <<Arrow>> \o (IF stream THEN <<Id("stream")>> ELSE <<>>) \o DottedTokens(ret))
    \o <<Semi, LB>>

\* test/fixture/contacts.yarp
ContactsFixtureLines(withMap) ==
    <<PackageLine(<<"org", "example", "contacts">>),
      <<LB>>,
      <<Cmt("Contact represent a single person in the address list."), LB>>,
      MessageOpen("Contact"),
      FieldLine(<<"optional">>, "id", <<Id("int64")>>, "0"),
      FieldLine(<<>>, "name", <<Id("string")>>, "1"),
      FieldLine(<<>>, "surname", <<Id("string")>>, "2"),
      FieldLine(<<"optional">>, "company", <<Id("Company")>>, "3"),
      FieldLine(<<"repeated">>, "emails", <<Id("string")>>, "4"),
      IF withMap
      THEN FieldLine(<<>>, "social_networks",
                     <<Id("map"), OpenAngled, Id("string"), Comma, Id("string"), CloseAngled>>, "5")
      ELSE <<>>,
      Close,
      <<LB>>,
      <<Cmt("Company represents a company in which a person"), LB>>,
      <<Cmt("works at."), LB>>,
      MessageOpen("Company"),
      FieldLine(<<>>, "name", <<Id("string")>>, "0"),
      FieldLine(<<>>, "website_address", <<Id("string")>>, "1"),
      Close,
      <<LB>>,
      <<Cmt("GetContactRequest represents a request to obtain"), LB>>,
      <<Cmt("a specific contact through a given id."), LB>>,
      MessageOpen("GetContactRequest"),
      FieldLine(<<>>, "id", <<Id("int64")>>, "0"),
      Close,
      <<LB>>,
      <<Cmt("GetContactResponse represents the result of a GetContactRequest."), LB>>,
      <<Cmt("An absent contact indicates that no contact under the provided id exists."), LB>>,
      MessageOpen("GetContactResponse"),
      FieldLine(<<"optional">>, "contact", <<Id("Contact")>>, "0"),
      Close,
      <<LB>>,
      ServiceOpen("ContactsService"),
      <<Cmt("upsert_contact creates or updates a given contact."), LB>>,
      MethodLine("upsert_contact", <<"Contact">>, FALSE, <<>>),
      <<LB>>,
      <<Cmt("list_contacts returns a stream of all known contacts."), LB>>,
      MethodLine("list_contacts", <<>>, TRUE, <<"Contact">>),
      <<LB>>,
      <<Cmt("get_contact obtains a single Contact by its ID."), LB>>,
      <<Cmt("Also see: GetContactRequest."), LB>>,
      MethodLine("get_contact", <<"GetContactRequest">>, FALSE, <<"GetContactResponse">>),
      Close,
      <<EOF>> >>

\* the fixture as it is, with its map field
ContactsFixture == Positioned(Flatten(ContactsFixtureLines(TRUE)))

\* the fixture without the social_networks line
ContactsFixtureNoMap == Positioned(Flatten(ContactsFixtureLines(FALSE)))

\* var file of the parser test
ParserTestFile ==
    Positioned(Flatten(
    <<<<LB>>,
      PackageLine(<<"io", "libyarp">>),
      <<LB>>,
      ImportLine("foo"),
      ImportLine("bar"),
      <<LB>>,
      <<Cmt("This is a comment"), LB>>,
      <<Cmt("bound to RandomBytesRequest"), LB>>,
      MessageOpen("RandomBytesRequest"),
      <<Id("desired_length"), Id("int8"), Equal, Num("0"), Semi,
        Cmt("Fields indexes begin at zero."), LB>>,
      Close,
      <<LB>>,
      MessageOpen("RandomBytesResponse"),
      FieldLine(<<"repeated">>, "data", <<Id("uint8")>>, "0"),
      Close,
      <<LB>>,
      MessageOpen("MessageUsingExternalType"),
      FieldLine(<<>>, "external_field", DottedTokens(<<"io", "libyarp", "common", "Foo">>), "0"),
      Close,
      <<LB>>,
      ServiceOpen("RandomBytesService"),
      MethodLine("generate_random_bytes", <<"RandomBytesRequest">>, FALSE, <<"RandomBytesResponse">>),
      Close,
      <<LB>>,
      ServiceOpen("ServiceUsingExternalTypes"),
      MethodLine("some_random_method", <<"io", "libyarp", "common", "External">>, FALSE,
                 <<"RandomBytesResponse">>),
      MethodLine("some_random_method2", <<"RandomBytesRequest">>, FALSE,
                 <<"io", "libyarp", "common", "External2">>),
      MethodLine("some_random_method3", <<>>, FALSE, <<"io", "libyarp", "common", "External2">>),
      MethodLine("some_method_without_response", <<>>, FALSE, <<>>),
      Close,
      <<EOF>> >>))

Fixtures == {ContactsFixture, ContactsFixtureNoMap, ParserTestFile}

\* how an input was written: its family and, for a type or a method input, the
\* type or the signature it was written from
Written(family, type, arg, stream, ret) ==
    [family |-> family, type |-> type, arg |-> arg, stream |-> stream, ret |-> ret]

NoType == [w |-> "none"]

FixtureCases == {[tokens |-> f, written |-> Written("fixture", NoType, <<>>, FALSE, <<>>)] : f \in Fixtures}

\* --- files made of up to MaxItems pieces after the package clause

MaxItems == 3

GenItems ==
    <<<<LB>>,
      <<Cmt("c1"), LB>>,
      <<Cmt("c2"), LB>>,
      <<Ann("optional")>>,
      <<Ann("repeated")>>,
      <<Id("message"), Id("M"), OpenCurly>>,
      <<CloseCurly>>,
      <<Id("a"), Id("int8"), Equal, Num("0"), Semi>>,
      <<Id("oneof"), OpenCurly>>,
      <<CloseCurly, Equal, Num("1"), Semi>>,
      <<Id("service"), Id("S"), OpenCurly>>,
      <<Id("f"), OpenParen, CloseParen, Semi>>,
      <<Id("import"), Str("foo"), Semi>> >>

GenInput(choice) ==
    Positioned(PackageLine(<<"p">>)
               \o Flatten([i \in 1..Len(choice) |-> GenItems[choice[i]]])
               \o <<EOF>>)

GenCases ==
    {[tokens |-> GenInput(c), written |-> Written("items", NoType, <<>>, FALSE, <<>>)] :
        c \in UNION {[1..k -> 1..Len(GenItems)] : k \in 0..MaxItems}}

\* --- files with one field, its type written from a type term of depth <= MaxTypeDepth

MaxTypeDepth == 2

\* the twelve primitive names and the kind each names
PrimitiveNames ==
    {<<"string", "String">>, <<"uint8", "Uint8">>, <<"uint16", "Uint16">>,
     <<"uint32", "Uint32">>, <<"uint64", "Uint64">>, <<"int8", "Int8">>,
     <<"int16", "Int16">>, <<"int32", "Int32">>, <<"int64", "Int64">>,
     <<"float32", "Float32">>, <<"float64", "Float64">>, <<"bool", "Bool">>}

TypeNames == {<<"Company">>, <<"io", "libyarp", "common", "Foo">>}

MapKeys == {<<"string", "String">>, <<"int32", "Int32">>, <<"bool", "Bool">>,
            <<"Company", "Invalid">>}

RECURSIVE TypeTerms(_)
TypeTerms(d) ==
    IF d = 0
    THEN {[w |-> "prim", name |-> p[1], kind |-> p[2]] : p \in PrimitiveNames}
         \cup {[w |-> "name", parts |-> n] : n \in TypeNames}
    ELSE LET sub == TypeTerms(d - 1) IN
         sub \cup {[w |-> "array", of |-> t] : t \in sub}
             \cup {[w |-> "map", key |-> k[1], kind |-> k[2], value |-> t] : k \in MapKeys, t \in sub}

\* the tokens a type term is written as
RECURSIVE TypeTokens(_)
TypeTokens(t) ==
    CASE t.w = "prim" -> <<Id(t.name)>>
      [] t.w = "name" -> DottedTokens(t.parts)
      [] t.w = "array" -> <<Id("array"), OpenAngled>> \o TypeTokens(t.of) \o <<CloseAngled>>
      [] t.w = "map" -> <<Id("map"), OpenAngled, Id(t.key), Comma>> \o TypeTokens(t.value)
                        \o <<CloseAngled>>

TypeInput(t) ==
    Positioned(PackageLine(<<"p">>) \o MessageOpen("M")
               \o FieldLine(<<>>, "f", TypeTokens(t), "0") \o Close \o <<EOF>>)

TypeCases ==
    {[tokens |-> TypeInput(t), written |-> Written("type", t, <<>>, FALSE, <<>>)] :
        t \in TypeTerms(MaxTypeDepth)}

\* --- files with one method, written from its signature

MethodNames == {<<"Contact">>, <<"io", "libyarp", "Foo">>, <<"void">>, <<"void", "X">>}

MethodInput(arg, stream, ret) ==
    Positioned(PackageLine(<<"p">>) \o ServiceOpen("S")
               \o MethodLine("f", arg, stream, ret) \o Close \o <<EOF>>)

MethodCases ==
    {[tokens |-> MethodInput(c[1], c[2], c[3]),
      written |-> Written("method", NoType, c[1], c[2], c[3])] :
        c \in ((MethodNames \cup {<<>>}) \X {FALSE} \X (MethodNames \cup {<<>>}))
              \cup ((MethodNames \cup {<<>>}) \X {TRUE} \X MethodNames)}

\* --- files with one field whose type or index breaks the grammar

\* an index text of more digits than an int holds
HugeIndex == "99999999999999999999"

GrammarErrorLines ==
    {FieldLine(<<>>, "f", <<Id("map"), Id("string"), Id("string")>>, "0"),
     FieldLine(<<>>, "f", <<Id("map"), Id("string"), Comma, Id("string")>>, "0"),
     FieldLine(<<>>, "f", <<Id("map"), OpenAngled, Id("string"), Id("string"), CloseAngled>>, "0"),
     FieldLine(<<>>, "f", <<Id("map"), OpenAngled, Id("string"), Comma, Id("string")>>, "0"),
     FieldLine(<<>>, "f", <<Id("array"), OpenAngled, Id("string")>>, "0"),
     FieldLine(<<>>, "f", <<Id("int8")>>, HugeIndex),
     <<Id("f"), Id("int8"), Equal, Semi, LB>>,
     <<Id("f"), Id("int8"), Num("0"), Semi, LB>>,
     <<Id("f"), Id("int8"), Equal, Num("0"), LB>>,
     <<Id("oneof"), OpenCurly, LB, Id("a"), Id("int8"), Equal, Num(HugeIndex), Semi, LB,
       CloseCurly, Equal, Num("0"), Semi, LB>>,
     <<Id("oneof"), OpenCurly, LB, Id("a"), Id("int8"), Equal, Num("0"), Semi, LB,
       CloseCurly, Equal, Num(HugeIndex), Semi, LB>>}

GrammarErrorInput(line) ==
    Positioned(PackageLine(<<"p">>) \o MessageOpen("M") \o line \o Close \o <<EOF>>)

GrammarErrorCases ==
    {[tokens |-> GrammarErrorInput(l), written |-> Written("grammar", NoType, <<>>, FALSE, <<>>)] :
        l \in GrammarErrorLines}

\* --- files of up to MaxDecls empty messages and services

MaxDecls == 3

DeclNames == {"A", "B", "C"}

DeclItems ==
    {MessageOpen(n) \o Close : n \in DeclNames} \cup {ServiceOpen(n) \o Close : n \in DeclNames}

DeclInput(items) ==
    Positioned(PackageLine(<<"p">>) \o Flatten(items) \o <<EOF>>)

DeclCases ==
    {[tokens |-> DeclInput(c), written |-> Written("declarations", NoType, <<>>, FALSE, <<>>)] :
        c \in UNION {[1..k -> DeclItems] : k \in 0..MaxDecls}}

\* --- files of up to MaxImports imports, comments and declarations after the package clause

MaxImports == 3

ImportPaths == {"foo", "./foo", "bar"}

\* what a piece of such a file is: an import of a path, a comment line, or an
\* empty message or service
ImportItems ==
    {[k |-> "import", v |-> p] : p \in ImportPaths}
    \cup {[k |-> "comment", v |-> "c"], [k |-> "message", v |-> "M"], [k |-> "service", v |-> "S"]}

ImportItemTokens(it) ==
    CASE it.k = "import" -> ImportLine(it.v)
      [] it.k = "comment" -> <<Cmt(it.v), LB>>
      [] it.k = "message" -> MessageOpen(it.v) \o Close
      [] it.k = "service" -> ServiceOpen(it.v) \o Close

ImportInput(items) ==
    Positioned(PackageLine(<<"p">>) \o <<LB>>
               \o Flatten([i \in 1..Len(items) |-> ImportItemTokens(items[i])]) \o <<EOF>>)

ImportCases ==
    {[tokens |-> ImportInput(c),
      written |-> [family |-> "imports", type |-> NoType, arg |-> <<>>, stream |-> FALSE,
                   ret |-> <<>>, items |-> c]] :
        c \in UNION {[1..k -> ImportItems] : k \in 0..MaxImports}}

\* --- files with a comment after a `;` on the same line: of the package clause, of
\* an import, of a field

TrailingCommentInputs ==
    {Positioned(<<Id("package"), Id("p"), Semi, Cmt("t"), LB>>
                \o MessageOpen("M") \o Close \o <<EOF>>),
     Positioned(PackageLine(<<"p">>)
                \o <<Id("import"), Str("foo"), Semi, Cmt("t"), LB>>
                \o MessageOpen("M") \o Close \o <<EOF>>),
     Positioned(PackageLine(<<"p">>) \o MessageOpen("M")
                \o <<Id("f"), Id("int8"), Equal, Num("0"), Semi, Cmt("t"), LB>>
                \o FieldLine(<<>>, "g", <<Id("int8")>>, "1") \o Close
                \o <<Cmt("s"), LB>> \o ServiceOpen("S") \o Close \o <<EOF>>)}

TrailingCommentCases ==
    {[tokens |-> t, written |-> Written("trailing", NoType, <<>>, FALSE, <<>>)] :
        t \in TrailingCommentInputs}

\* --- files that end early: every prefix of the parser test's file, and annotations
\* whose value list is cut off, each followed by EOF

TruncatedInputs ==
    {[i \in 1..(k + 1) |->
        IF i <= k THEN ParserTestFile[i]
        ELSE Tok("EOF", "", ParserTestFile[k + 1].Line, ParserTestFile[k + 1].Column)] :
        k \in 0..(Len(ParserTestFile) - 1)}

UnclosedAnnotationInputs ==
    {Positioned(PackageLine(<<"p">>) \o <<Ann("a"), OpenParen, Id("x"), EOF>>),
     Positioned(PackageLine(<<"p">>) \o MessageOpen("M")
                \o <<Ann("a"), OpenParen, Id("x"), Id("y"), LB, EOF>>),
     Positioned(PackageLine(<<"p">>) \o MessageOpen("M")
                \o <<Ann("a"), OpenParen, Id("x"), CloseParen>>
                \o FieldLine(<<>>, "f", <<Id("int8")>>, "0") \o Close \o <<EOF>>)}

TruncatedCases ==
    {[tokens |-> t, written |-> Written("truncated", NoType, <<>>, FALSE, <<>>)] :
        t \in TruncatedInputs \cup UnclosedAnnotationInputs}

InputCases ==
    FixtureCases \cup GenCases \cup TypeCases \cup MethodCases \cup GrammarErrorCases
    \cup DeclCases \cup ImportCases \cup TrailingCommentCases \cup TruncatedCases

----------------------------------------------------------------------------
(* The scanner (scanner.go). The text is a sequence of characters, each a  *)
(* one-character string; offsets are 0-based as in the source.             *)

NewScanner(text) == [tokens |-> <<>>, data |-> text, start |-> 0, current |-> 0]

NUL == "NUL"

isAtEnd(sc) == sc.current >= Len(sc.data)

scannerPeek(sc) == IF isAtEnd(sc) THEN NUL ELSE sc.data[sc.current + 1]

RECURSIVE posLoop(_, _, _, _, _)
posLoop(data, i, cur, line, column) ==
    IF i >= cur THEN <<line, column>>
    ELSE IF data[i + 1] = "\n" THEN posLoop(data, i + 1, cur, line + 1, 2)
    ELSE posLoop(data, i + 1, cur, line, column + 1)

scannerPos(sc) == posLoop(sc.data, 0, sc.current, 1, 1)

Sprintf(format, arg) == <<format, arg>>

SyntaxError(sc, msg) ==
    [kind |-> "SyntaxError", Message |-> msg,
     Line |-> scannerPos(sc)[1], Column |-> scannerPos(sc)[2]]

ScanContinues(sc) == [sc |-> sc, status |-> "ok", err |-> NoError]

ScanFailed(sc, msg) == [sc |-> sc, status |-> "error", err |-> SyntaxError(sc, msg)]

(* advance at the end of the data: index out of range. *)
ScanPanicked(sc) == [sc |-> sc, status |-> "panic", err |-> NoError]

TokenAtPos(sc, k, v, p) == [sc EXCEPT !.tokens = Append(@, Tok(k, v, p[1], p[2]))]

pushToken(sc, k, v) == TokenAtPos(sc, k, v, scannerPos(sc))

(* s.data[a:b] and string(...) of it *)
Chars(sc, a, b) == SubSeq(sc.data, a + 1, b)

RECURSIVE Text(_)
Text(chars) == IF chars = <<>> THEN "" ELSE Head(chars) \o Text(Tail(chars))

Letters ==
    {"a", "b", "c", "d", "e", "f", "g", "h", "i", "j", "k", "l", "m", "n", "o", "p", "q",
     "r", "s", "t", "u", "v", "w", "x", "y", "z", "A", "B", "C", "D", "E", "F", "G", "H",
     "I", "J", "K", "L", "M", "N", "O", "P", "Q", "R", "S", "T", "U", "V", "W", "X", "Y",
     "Z", "_"}

IsDigit(r) == r \in {"0", "1", "2", "3", "4", "5", "6", "7", "8", "9"}

(* Of the characters of the model only the control characters are not      *)
(* graphic.                                                                *)
IsGraphic(r) == r \notin {"\t", "\n", "\r", "\f", NUL}

IsSpace(r) == r \in {" ", "\t", "\n", "\r", "\f"}

RECURSIVE TrimLeft(_)
TrimLeft(chars) ==
    IF chars # <<>> /\ IsSpace(Head(chars)) THEN TrimLeft(Tail(chars)) ELSE chars

RECURSIVE TrimRight(_)
TrimRight(chars) ==
    IF chars # <<>> /\ IsSpace(chars[Len(chars)])
    THEN TrimRight(SubSeq(chars, 1, Len(chars) - 1)) ELSE chars

TrimSpace(chars) == TrimRight(TrimLeft(chars))

(* strings.ReplaceAll(s, `\"`, `"`) *)
RECURSIVE ReplaceAllEscapedQuotes(_)
ReplaceAllEscapedQuotes(chars) ==
    IF Len(chars) < 2 THEN chars
    ELSE IF chars[1] = "\\" /\ chars[2] = "\""
    THEN <<"\"">> \o ReplaceAllEscapedQuotes(SubSeq(chars, 3, Len(chars)))
    ELSE <<chars[1]>> \o ReplaceAllEscapedQuotes(Tail(chars))

simpleTokens ==
    ("(" :> "OpenParen") @@ (")" :> "CloseParen") @@ ("<" :> "OpenAngled")
    @@ (">" :> "CloseAngled") @@ ("{" :> "OpenCurly") @@ ("}" :> "CloseCurly")
    @@ ("," :> "Comma") @@ ("." :> "Dot") @@ ("=" :> "Equal") @@ (";" :> "Semi")
    @@ ("\n" :> "LineBreak")

(* for s.peek() != stop { s.advance() }: the offset of the first stop at   *)
(* or after cur, or -1 when there is none and advance runs off the data.   *)
RECURSIVE advanceUntil(_, _, _)
advanceUntil(data, cur, stop) ==
    IF cur >= Len(data) THEN -1
    ELSE IF data[cur + 1] = stop THEN cur
    ELSE advanceUntil(data, cur + 1, stop)

RECURSIVE advanceWhile(_, _, _)
advanceWhile(data, cur, class) ==
    IF cur < Len(data) /\ data[cur + 1] \in class
    THEN advanceWhile(data, cur + 1, class) ELSE cur

number(sc) ==
    LET p == scannerPos(sc)
        j == advanceWhile(sc.data, sc.current, {"0", "1", "2", "3", "4", "5", "6", "7", "8", "9"})
    IN  ScanContinues(TokenAtPos([sc EXCEPT !.current = j], "Number",
                            Text(Chars(sc, sc.start, j)), p))

identifier(sc) ==
    LET p == scannerPos(sc)
        c1 == IF scannerPeek(sc) \in Letters THEN sc.current + 1 ELSE sc.current
        j == advanceWhile(sc.data, c1,
                          Letters \cup {"0", "1", "2", "3", "4", "5", "6", "7", "8", "9"})
    IN  ScanContinues(TokenAtPos([sc EXCEPT !.current = j], "Identifier",
                            Text(Chars(sc, sc.start, j)), p))

comment(sc) ==
    LET p == scannerPos(sc)
        j == advanceUntil(sc.data, sc.current, "\n")
    IN  IF j = -1 THEN ScanPanicked([sc EXCEPT !.current = Len(sc.data)])
        ELSE ScanContinues(TokenAtPos([sc EXCEPT !.current = j], "Comment",
                                 Text(TrimSpace(Chars(sc, sc.start + 1, j))), p))

scannerAnnotation(sc) ==
    LET p == scannerPos(sc)
        j == advanceUntil(sc.data, sc.current, " ")
        sc1 == [sc EXCEPT !.current = j]
    IN  IF j = -1 THEN ScanPanicked([sc EXCEPT !.current = Len(sc.data)])
        ELSE IF j - sc.start = 1
        THEN ScanFailed(sc1, Sprintf("Unexpected `%c', expected identifier", scannerPeek(sc1)))
        ELSE ScanContinues(TokenAtPos(sc1, "Annotation", Text(Chars(sc, sc.start + 1, j)), p))

(* The loop of Scanner.string from offset cur on. *)
RECURSIVE stringLoop(_, _, _)
stringLoop(data, cur, escaping) ==
    IF cur >= Len(data) THEN [closed |-> FALSE, cur |-> cur]
    ELSE IF data[cur + 1] = "\""
    THEN IF ~escaping THEN [closed |-> TRUE, cur |-> cur]
         ELSE stringLoop(data, cur + 1, FALSE)
    ELSE IF data[cur + 1] = "\\" THEN stringLoop(data, cur + 1, TRUE)
    ELSE IF data[cur + 1] = "\n" THEN [closed |-> FALSE, cur |-> cur]
    ELSE stringLoop(data, cur + 1, escaping)

scannerString(sc) ==
    LET p == scannerPos(sc)
        r == stringLoop(sc.data, sc.current + 1, FALSE)
        end == r.cur + 1
    IN  IF isAtEnd(sc) THEN ScanPanicked(sc)
        ELSE IF ~r.closed
        THEN ScanFailed([sc EXCEPT !.current = r.cur], Sprintf("unterminated string", ""))
        ELSE ScanContinues(TokenAtPos([sc EXCEPT !.current = end], "StringElement",
                 Text(ReplaceAllEscapedQuotes(Chars(sc, sc.start + 1, end - 1))), p))

(* One turn of the loop of Run: s.start = s.current; s.scanToken(). *)
scanToken(sc0) ==
    LET r == sc0.data[sc0.current + 1]
        sc == [sc0 EXCEPT !.start = sc0.current, !.current = sc0.current + 1]
    IN  IF r = "@" THEN scannerAnnotation(sc)
        ELSE IF r = "-"
        THEN IF scannerPeek(sc) # ">"
             THEN IF isAtEnd(sc) THEN ScanPanicked(sc)
                  ELSE ScanFailed([sc EXCEPT !.current = @ + 1],
                                  Sprintf("Unexpected `%c', expected `>'", scannerPeek(sc)))
             ELSE ScanContinues([pushToken(sc, "Arrow", "->") EXCEPT !.current = @ + 1])
        ELSE IF r \in {"\r", " ", "\t"} THEN ScanContinues(sc)
        ELSE IF r = "\"" THEN scannerString(sc)
        ELSE IF r = "#" THEN comment(sc)
        ELSE IF r \in DOMAIN simpleTokens THEN ScanContinues(pushToken(sc, simpleTokens[r], r))
        ELSE IF IsDigit(r) THEN number(sc)
        ELSE IF IsGraphic(r) THEN identifier(sc)
        ELSE ScanFailed(sc, Sprintf("Unexpected `%c'", r))

----------------------------------------------------------------------------
(* Texts for Scan: whole files, string literals, annotated fields, and     *)
(* every text of up to MaxTextLen characters over a small alphabet.        *)

FullTexts ==
    { <<"p", "a", "c", "k", "a", "g", "e", " ", "p", ";", "\n", "#", " ", "c", "\n",
        "\n", "i", "m", "p", "o", "r", "t", " ", "\"", "f", "\"", ";", "\n", "\n", "#",
        " ", "m", "\n", "m", "e", "s", "s", "a", "g", "e", " ", "M", " ", "{", "\n",
        "#", " ", "f", "\n", "@", "a", " ", "f", " ", "i", "n", "t", "8", " ", "=",
        " ", "0", ";", "\n", "}", "\n">>,
      <<"p", "a", "c", "k", "a", "g", "e", " ", "p", ";", "\n", "m", "e", "s", "s",
        "a", "g", "e", " ", "M", " ", "{", "\n", "o", "n", "e", "o", "f", " ", "{",
        "\n", "g", " ", "i", "n", "t", "8", " ", "=", " ", "1", ";", "\n", "}", " ",
        "=", " ", "2", ";", "\n", "}", "\n">>,
      <<"p", "a", "c", "k", "a", "g", "e", " ", "p", ";", "\n", "s", "e", "r", "v",
        "i", "c", "e", " ", "S", " ", "{", "\n", "h", "(", ")", " ", "-", ">", " ",
        "s", "t", "r", "e", "a", "m", " ", "M", ";", "\n", "}", "\n">> }

UnknownDeclarationText ==
    <<"p", "a", "c", "k", "a", "g", "e", " ", "p", ";", "\n", "x">>

ControlCharacterText ==
    <<"a", "\f">>

(* "ab"   ""   "a\a"   "a\"a"   "\"a"   each followed by ; *)
StringTexts ==
    { <<"\"", "a", "b", "\"", ";">>,
      <<"\"", "\"", ";">>,
      <<"\"", "a", "\\", "a", "\"", ";">>,
      <<"\"", "a", "\\", "\"", "a", "\"", ";">>,
      <<"\"", "\\", "\"", "a", "\"", ";">> }

Plain(text) == [text |-> text, written |-> [family |-> "text"]]

AnnotatedField(text, name, values) ==
    [text |-> text, written |-> [family |-> "annotation", name |-> name, values |-> values]]

(* @a   @a(x)   @a(x, y)   @a(x y, z)   @a (x)   @a (x, y)  before a field *)
AnnotationTexts ==
    { AnnotatedField(
        <<"p", "a", "c", "k", "a", "g", "e", " ", "p", ";", "\n", "m", "e", "s", "s", "a",
          "g", "e", " ", "M", " ", "{", "\n", "@", "a", " ", "f", " ", "i", "n", "t", "8",
          " ", "=", " ", "0", ";", "\n", "}", "\n">>,
        "a", <<>>),
      AnnotatedField(
        <<"p", "a", "c", "k", "a", "g", "e", " ", "p", ";", "\n", "m", "e", "s", "s", "a",
          "g", "e", " ", "M", " ", "{", "\n", "@", "a", "(", "x", ")", " ", "f", " ", "i",
          "n", "t", "8", " ", "=", " ", "0", ";", "\n", "}", "\n">>,
        "a", <<"x">>),
      AnnotatedField(
        <<"p", "a", "c", "k", "a", "g", "e", " ", "p", ";", "\n", "m", "e", "s", "s", "a",
          "g", "e", " ", "M", " ", "{", "\n", "@", "a", "(", "x", ",", " ", "y", ")", " ",
          "f", " ", "i", "n", "t", "8", " ", "=", " ", "0", ";", "\n", "}", "\n">>,
        "a", <<"x", "y">>),
      AnnotatedField(
        <<"p", "a", "c", "k", "a", "g", "e", " ", "p", ";", "\n", "m", "e", "s", "s", "a",
          "g", "e", " ", "M", " ", "{", "\n", "@", "a", "(", "x", " ", "y", ",", " ", "z",
          ")", " ", "f", " ", "i", "n", "t", "8", " ", "=", " ", "0", ";", "\n", "}", "\n">>,
        "a", <<"x y", "z">>),
      AnnotatedField(
        <<"p", "a", "c", "k", "a", "g", "e", " ", "p", ";", "\n", "m", "e", "s", "s", "a",
          "g", "e", " ", "M", " ", "{", "\n", "@", "a", " ", "(", "x", ")", " ", "f", " ",
          "i", "n", "t", "8", " ", "=", " ", "0", ";", "\n", "}", "\n">>,
        "a", <<"x">>),
      AnnotatedField(
        <<"p", "a", "c", "k", "a", "g", "e", " ", "p", ";", "\n", "m", "e", "s", "s", "a",
          "g", "e", " ", "M", " ", "{", "\n", "@", "a", " ", "(", "x", ",", " ", "y", ")",
          " ", "f", " ", "i", "n", "t", "8", " ", "=", " ", "0", ";", "\n", "}", "\n">>,
        "a", <<"x", "y">>) }

MaxTextLen == 3

Alphabet == {"a", " ", "\n", "\"", "\\", "@", "-", ">", "#"}

RECURSIVE TextsOfLength(_)
TextsOfLength(n) ==
    IF n = 0 THEN {<<>>}
    ELSE {Append(t, c) : t \in TextsOfLength(n - 1), c \in Alphabet}

GenTexts == UNION {TextsOfLength(n) : n \in 0..MaxTextLen}

(* !   $a   a+a   a1 b_2   _a   1a  *)
IdentifierTexts ==
    { <<"!">>,
      <<"$", "a">>,
      <<"a", "+", "a">>,
      <<"a", "1", " ", "b", "_", "2">>,
      <<"_", "a">>,
      <<"1", "a">> }

TextCases ==
    {Plain(t) : t \in FullTexts \cup {UnknownDeclarationText, ControlCharacterText}
                      \cup StringTexts \cup IdentifierTexts \cup GenTexts}
    \cup AnnotationTexts

----------------------------------------------------------------------------
(* Scan as steps: one turn of the loop of Run per step, one action per     *)
(* case of scanToken; when Run returns, the tokens are handed to Parse.    *)

InRun == scanResult.status = "scanning" /\ ~isAtEnd(scanner)

NextRune == scanner.data[scanner.current + 1]

ScanStep ==
    LET r == scanToken(scanner)
    IN  /\ scanner' = r.sc
        /\ scanResult' = IF r.status = "ok" THEN scanResult
                         ELSE [status |-> r.status, err |-> r.err]
        /\ UNCHANGED <<parserVars, loaderVars>>

scanTokenAnnotation == InRun /\ NextRune = "@" /\ ScanStep

scanTokenArrow == InRun /\ NextRune = "-" /\ ScanStep

scanTokenBlank == InRun /\ NextRune \in {"\r", " ", "\t"} /\ ScanStep

scanTokenString == InRun /\ NextRune = "\"" /\ ScanStep

scanTokenComment == InRun /\ NextRune = "#" /\ ScanStep

scanTokenSimple == InRun /\ NextRune \in DOMAIN simpleTokens /\ ScanStep

scanTokenNumber == InRun /\ IsDigit(NextRune) /\ ScanStep

scanTokenIdentifier ==
    /\ InRun
    /\ NextRune \notin {"@", "-", "\r", " ", "\t", "\"", "#"} \cup DOMAIN simpleTokens
    /\ ~IsDigit(NextRune)
    /\ IsGraphic(NextRune)
    /\ ScanStep

scanTokenUnexpected ==
    /\ InRun
    /\ NextRune \notin {"@", "-", "\r", " ", "\t", "\"", "#"} \cup DOMAIN simpleTokens
    /\ ~IsDigit(NextRune)
    /\ ~IsGraphic(NextRune)
    /\ ScanStep

(* Run, lines 58-59, and the caller handing the tokens to Parse. *)
RunReturn ==
    /\ scanResult.status = "scanning"
    /\ isAtEnd(scanner)
    /\ scanner' = pushToken(scanner, "EOF", "")
    /\ scanResult' = [status |-> "done", err |-> NoError]
    /\ tokens' = scanner'.tokens
    /\ pc' = "package"
    /\ UNCHANGED <<written, current, comments, annotations, commentsMem, annotationsMem,
                   file, m, oneof, s, err, loaderVars>>

ScannerNext ==
    \/ scanTokenAnnotation
    \/ scanTokenArrow
    \/ scanTokenBlank
    \/ scanTokenString
    \/ scanTokenComment
    \/ scanTokenSimple
    \/ scanTokenNumber
    \/ scanTokenIdentifier
    \/ scanTokenUnexpected
    \/ RunReturn

----------------------------------------------------------------------------
(* The file-set resolver: paths, disk and errors *)

(* A path is the directory form it is written in (absolute or relative to  *)
(* the working directory) and its name; all files live in one directory.   *)
Path(abs, name) == [abs |-> abs, name |-> name]

EmptyPath == Path(FALSE, "")

Abs(p) == [p EXCEPT !.abs = TRUE]

Join(dirOf, i) == Path(dirOf.abs, i)

WithYarp(p) == [p EXCEPT !.name = @ \o ".yarp"]

PathString(p) == IF p.abs THEN "/w/" \o p.name ELSE p.name

NilFile == [kind |-> "nil"]

SourceFileNotFoundError(path) == [kind |-> "SourceFileNotFoundError", Path |-> path]

SourceIsDirectoryError(path) == [kind |-> "SourceIsDirectoryError", Path |-> path]

ImportFileNotFoundError_Swapped(source, path) ==
    [kind |-> "ImportFileNotFoundError", Source |-> path, Path |-> source]

ImportFileNotFoundError(source, path) ==
    [kind |-> "ImportFileNotFoundError", Source |-> source, Path |-> path]

MixedPackagesError(path, p1, p2) ==
    [kind |-> "MixedPackagesError", Path |-> path, Package1 |-> p1, Package2 |-> p2]

WrapError(path, e) == [kind |-> "wrapError", Path |-> path, Err |-> e]

DuplicatedDefinition(fqn) == PlainError("duplicated definition of " \o fqn)

MultipleDeclarations(n, finalPath) ==
    PlainError("multiple declarations of service " \o n
               \o " (duplicate found in " \o PathString(finalPath) \o ")")

NewFileSet ==
    [loadedFiles |-> {}, knownServices |-> {}, packageName |-> "",
     messages |-> <<>>, Messages |-> <<>>, Services |-> <<>>]

Returned(f, e) == [fs |-> f, err |-> e]

(* *Message and *Service values: the declaring parse and the name. *)
MessageOf(fl, n) == [owner |-> fl.id, Name |-> n]

ServiceOf(fl, n) == [owner |-> fl.id, Name |-> n]

registerMessage_Overwriting(f, fl, msg) ==
    Returned([f EXCEPT !.messages = ((fl.Package \o "." \o msg.Name) :> msg) @@ @], NoError)

registerMessage(f, fl, msg) ==
    LET fqn == fl.Package \o "." \o msg.Name
    IN  IF fqn \in DOMAIN f.messages
        THEN Returned(f, DuplicatedDefinition(fqn))
        ELSE Returned([f EXCEPT !.messages = (fqn :> msg) @@ @], NoError)

(* The message names written on the disks; none of them contains a dot,   *)
(* and every fully-qualified name does.                                    *)
BareNames == {"A", "B", "C", "D", "M"}

ContainsDot(name) == name \notin BareNames

NotFound == [msg |-> [owner |-> "", Name |-> ""], ok |-> FALSE]

FindMessage(f, name) ==
    LET n == IF ~ContainsDot(name) THEN f.packageName \o "." \o name ELSE name
    IN  IF n \in DOMAIN f.messages THEN [msg |-> f.messages[n], ok |-> TRUE] ELSE NotFound

isLoaded(f, path) == path \in f.loadedFiles

Exists(p) == p.name \in DOMAIN disk

IsDir(p) == disk[p.name].kind = "dir"

(* findAndLoad returns the final path, the parsed file and the error, and  *)
(* (scanned) the name of the file it handed to Scan and Parse, if any.     *)
findAndLoad(f, path) ==
    LET sAbs == Abs(path)
        next == WithYarp(path)
        retry == ~Exists(sAbs) \/ IsDir(sAbs)
        found == retry /\ Exists(next) /\ ~IsDir(next)
        exist == Exists(sAbs) \/ found
        stat == IF found THEN next ELSE sAbs
        path1 == IF retry THEN (IF found THEN next ELSE path) ELSE sAbs
        none == [path |-> EmptyPath, file |-> NilFile, err |-> NoError, scanned |-> ""]
    IN  IF isLoaded(f, sAbs) THEN none
        ELSE IF ~exist THEN [none EXCEPT !.err = SourceFileNotFoundError(path1)]
        ELSE IF IsDir(stat) THEN [none EXCEPT !.err = SourceIsDirectoryError(path1)]
        ELSE IF ~disk[path1.name].ok
             THEN [none EXCEPT !.err = disk[path1.name].err, !.scanned = path1.name]
        ELSE [path |-> path1, file |-> disk[path1.name], err |-> NoError,
              scanned |-> path1.name]

adoptPackage_Unchecked(f, path, fl) ==
    IF f.packageName = ""
    THEN Returned([f EXCEPT !.packageName = fl.Package], NoError)
    ELSE Returned(f, NoError)

(* Load, lines 113-121: adopt or compare the package. *)
adoptPackage(f, path, fl) ==
    IF f.packageName = ""
    THEN Returned([f EXCEPT !.packageName = fl.Package], NoError)
    ELSE IF f.packageName # fl.Package
         THEN Returned(f, MixedPackagesError(path, f.packageName, fl.Package))
         ELSE Returned(f, NoError)

(* Load, lines 127-136, from the k-th declared message on. *)
RECURSIVE loadMessages(_, _, _)
loadMessages(f, fl, k) ==
    IF k > Len(fl.DeclaredMessages) THEN Returned(f, NoError)
    ELSE LET msg == MessageOf(fl, fl.DeclaredMessages[k])
             r == registerMessage([f EXCEPT !.Messages = Append(@, msg)], fl, msg)
         IN  IF r.err # NoError THEN r ELSE loadMessages(r.fs, fl, k + 1)

(* Load, lines 138-151, from the k-th declared service on. *)
RECURSIVE loadServices(_, _, _, _)
loadServices(f, fl, finalPath, k) ==
    IF k > Len(fl.DeclaredServices) THEN Returned(f, NoError)
    ELSE LET n == fl.DeclaredServices[k]
         IN  IF n \in f.knownServices
             THEN Returned(f, MultipleDeclarations(n, finalPath))
             ELSE loadServices([f EXCEPT !.knownServices = @ \cup {n},
                                         !.Services = Append(@, ServiceOf(fl, n))],
                               fl, finalPath, k + 1)

RECURSIVE importMessages_Unfiltered(_, _, _)
importMessages_Unfiltered(f, imported, k) ==
    IF k > Len(imported.DeclaredMessages) THEN Returned(f, NoError)
    ELSE LET msg == MessageOf(imported, imported.DeclaredMessages[k])
             r == registerMessage(f, imported, msg)
         IN  IF r.err # NoError THEN r
             ELSE importMessages_Unfiltered([r.fs EXCEPT !.Messages = Append(@, msg)],
                                            imported, k + 1)

(* processImports, lines 177-187, from the k-th declared message on. *)
RECURSIVE importMessages(_, _, _)
importMessages(f, imported, k) ==
    IF k > Len(imported.DeclaredMessages) THEN Returned(f, NoError)
    ELSE LET msg == MessageOf(imported, imported.DeclaredMessages[k])
             r == registerMessage(f, imported, msg)
         IN  IF r.err # NoError THEN r
             ELSE importMessages(
                     IF imported.Package = r.fs.packageName
                     THEN [r.fs EXCEPT !.Messages = Append(@, msg)] ELSE r.fs,
                     imported, k + 1)

(* processImports, lines 188-204. *)
importServices(f, imported, finalPath) ==
    IF imported.Package = f.packageName
    THEN loadServices(f, imported, finalPath, 1)
    ELSE Returned(f, NoError)

----------------------------------------------------------------------------
(* Disks: a.yarp, b.yarp and c.yarp in the working directory /w, and a    *)
(* directory d. A file is modelled by what Parse returns for it.           *)

YarpFile(id, pkg, imports, msgs, svcs) ==
    [kind |-> "file", ok |-> TRUE, id |-> id, Package |-> pkg, ImportedFiles |-> imports,
     DeclaredMessages |-> msgs, DeclaredServices |-> svcs]

BrokenFile(id) ==
    [kind |-> "file", ok |-> FALSE, id |-> id,
     err |-> [kind |-> "ParseError", Token |-> EOFSentinel, Message |-> "expected package"]]

Directory == [kind |-> "dir"]

ImportGraphs ==
    { [a |-> <<>>,                   b |-> <<>>,           c |-> <<>>],
      [a |-> <<"b">>,                b |-> <<"c">>,        c |-> <<>>],
      [a |-> <<"b.yarp">>,           b |-> <<"c.yarp">>,   c |-> <<>>],
      [a |-> <<"b", "c">>,           b |-> <<"c">>,        c |-> <<>>],
      [a |-> <<"b.yarp", "c.yarp">>, b |-> <<"c.yarp">>,   c |-> <<>>],
      [a |-> <<"b">>,                b |-> <<"a">>,        c |-> <<>>],
      [a |-> <<"b.yarp">>,           b |-> <<"a.yarp">>,   c |-> <<>>],
      [a |-> <<"x", "y">>,           b |-> <<>>,           c |-> <<>>],
      [a |-> <<"x", "b">>,           b |-> <<>>,           c |-> <<>>],
      [a |-> <<"b", "x">>,           b |-> <<>>,           c |-> <<"d">>] }

PackageAssignments ==
    { [a |-> "p", b |-> "p", c |-> "p"],
      [a |-> "p", b |-> "q", c |-> "p"],
      [a |-> "p", b |-> "p", c |-> "q"] }

Decl(msgs, svcs) == [ok |-> TRUE, msgs |-> msgs, svcs |-> svcs]

Unparsable == [ok |-> FALSE, msgs |-> <<>>, svcs |-> <<>>]

Declarations ==
    { [a |-> Decl(<<"A">>, <<"SA">>), b |-> Decl(<<"B">>, <<"SB">>), c |-> Decl(<<"C", "D">>, <<>>)],
      [a |-> Decl(<<"M">>, <<>>),     b |-> Decl(<<"M">>, <<>>),     c |-> Decl(<<>>, <<>>)],
      [a |-> Decl(<<"A">>, <<"S">>),  b |-> Decl(<<>>, <<>>),        c |-> Decl(<<"C">>, <<"S">>)],
      [a |-> Decl(<<>>, <<>>),        b |-> Decl(<<"B">>, <<>>),     c |-> Decl(<<"C">>, <<>>)],
      [a |-> Decl(<<"A">>, <<>>),     b |-> Decl(<<"B">>, <<>>),     c |-> Unparsable] }

FileOn(id, g, p, d) ==
    IF d.ok THEN YarpFile(id, p, g, d.msgs, d.svcs) ELSE BrokenFile(id)

DiskOf(g, p, d) ==
    ("a.yarp" :> FileOn("a.yarp", g.a, p.a, d.a))
    @@ ("b.yarp" :> FileOn("b.yarp", g.b, p.b, d.b))
    @@ ("c.yarp" :> FileOn("c.yarp", g.c, p.c, d.c))
    @@ ("d" :> Directory)

Disks == {DiskOf(g, p, d) : g \in ImportGraphs, p \in PackageAssignments, d \in Declarations}

(* The paths Load is called with. *)
LoadPaths ==
    { Path(FALSE, "a"), Path(FALSE, "a.yarp"), Path(FALSE, "b.yarp"),
      Path(TRUE, "c"), Path(FALSE, "x") }

----------------------------------------------------------------------------
(* The file-set resolver: Load and processImports as steps over a stack of *)
(* processImports frames (the bottom frame was called by Load).            *)

MaxDepth == 4

MaxLoads == 2

\* a frame that starts behind the last import
Frame_ImportsSkipped(path, fl) == [path |-> path, file |-> fl, i |-> Len(fl.ImportedFiles) + 1]

Frame(path, fl) == [path |-> path, file |-> fl, i |-> 1]

Top == stack[Len(stack)]

Running == [status |-> "running", err |-> NoError]

ReturnedOk == [status |-> "ok", err |-> NoError]

ReturnedError(e) == [status |-> "error", err |-> e]

Panicked == [status |-> "panic", err |-> NoError]

NoScans == [n \in DOMAIN disk |-> 0]

Scanned(sc, n) == IF n = "" THEN sc ELSE [sc EXCEPT ![n] = @ + 1]

(* Load up to its call of processImports (lines 107-123). A nil file (the  *)
(* path was already loaded) is dereferenced at line 113 or 115.            *)
Load(path) ==
    /\ UNCHANGED <<parserVars, scannerVars>>
    /\ stack = <<>>
    /\ outcome.status \in {"none", "ok", "error"}
    /\ loads < MaxLoads
    /\ loads' = loads + 1
    /\ LET r == findAndLoad(fs, path)
           f1 == [fs EXCEPT !.loadedFiles = @ \cup {r.path}]
           c == adoptPackage(f1, path, r.file)
       IN  /\ scans' = Scanned(NoScans, r.scanned)
           /\ pre' = [fs |-> fs, path |-> path, root |-> r.scanned]
           /\ IF r.err # NoError
              THEN /\ fs' = fs
                   /\ outcome' = ReturnedError(WrapError(path, r.err))
                   /\ stack' = <<>>
              ELSE IF r.file = NilFile
              THEN /\ fs' = f1
                   /\ outcome' = Panicked
                   /\ stack' = <<>>
              ELSE IF c.err # NoError
              THEN /\ fs' = c.fs
                   /\ outcome' = ReturnedError(c.err)
                   /\ stack' = <<>>
              ELSE /\ fs' = c.fs
                   /\ outcome' = Running
                   /\ stack' = <<Frame(r.path, r.file)>>
    /\ UNCHANGED disk

(* One turn of the loop of processImports up to the recursive call (lines  *)
(* 156-174). The callee dereferences a nil file at line 156.               *)
processImports ==
    /\ UNCHANGED <<parserVars, scannerVars>>
    /\ stack # <<>>
    /\ Top.i <= Len(Top.file.ImportedFiles)
    /\ LET target == Abs(Join(Top.path, Top.file.ImportedFiles[Top.i]))
           r == findAndLoad(fs, target)
           f1 == [fs EXCEPT !.loadedFiles = @ \cup {r.path}]
       IN  /\ scans' = Scanned(scans, r.scanned)
           /\ IF r.err # NoError
              THEN /\ fs' = fs
                   /\ outcome' = ReturnedError(
                          IF r.err.kind = "SourceFileNotFoundError"
                          THEN ImportFileNotFoundError(Top.path, r.err.Path)
                          ELSE r.err)
                   /\ stack' = <<>>
              ELSE IF r.file = NilFile
              THEN /\ fs' = f1
                   /\ outcome' = Panicked
                   /\ stack' = <<>>
              ELSE /\ Len(stack) < MaxDepth
                   /\ fs' = f1
                   /\ outcome' = outcome
                   /\ stack' = Append(stack, Frame(r.path, r.file))
    /\ UNCHANGED <<disk, pre, loads>>

(* The recursive call returned nil: register what the imported file        *)
(* declares (lines 177-204) and go on with the next import.                *)
processImportsRegister ==
    /\ UNCHANGED <<parserVars, scannerVars>>
    /\ Len(stack) >= 2
    /\ Top.i > Len(Top.file.ImportedFiles)
    /\ LET imported == Top.file
           finalPath == Top.path
           r1 == importMessages(fs, imported, 1)
           r2 == IF r1.err = NoError THEN importServices(r1.fs, imported, finalPath) ELSE r1
           caller == Len(stack) - 1
       IN  /\ fs' = r2.fs
           /\ IF r2.err # NoError
              THEN /\ outcome' = ReturnedError(r2.err)
                   /\ stack' = <<>>
              ELSE /\ outcome' = outcome
                   /\ stack' = [SubSeq(stack, 1, caller) EXCEPT ![caller].i = @ + 1]
    /\ UNCHANGED <<disk, pre, scans, loads>>

(* processImports returned nil to Load: lines 127-152. *)
LoadRegister ==
    /\ UNCHANGED <<parserVars, scannerVars>>
    /\ Len(stack) = 1
    /\ Top.i > Len(Top.file.ImportedFiles)
    /\ LET fl == Top.file
           finalPath == Top.path
           r1 == loadMessages(fs, fl, 1)
           r2 == IF r1.err = NoError THEN loadServices(r1.fs, fl, finalPath, 1) ELSE r1
       IN  /\ fs' = r2.fs
           /\ outcome' = IF r2.err # NoError THEN ReturnedError(r2.err) ELSE ReturnedOk
           /\ stack' = <<>>
    /\ UNCHANGED <<disk, pre, scans, loads>>

LoaderNext ==
    \/ \E path \in LoadPaths : Load(path)
    \/ processImports
    \/ processImportsRegister
    \/ LoadRegister

----------------------------------------------------------------------------
(* Specifications *)

ParserInit ==
    /\ \E c \in InputCases : tokens = c.tokens /\ written = c.written
    /\ current = 0
    /\ comments = NilSlice
    /\ annotations = NilSlice
    /\ commentsMem = <<>>
    /\ annotationsMem = <<>>
    /\ file = NewFile
    /\ pc = "package"
    /\ m = NoMessage
    /\ oneof = NoOneOf
    /\ s = NoService
    /\ err = NoError

ScannerIdle ==
    /\ scanner = NewScanner(<<>>)
    /\ scanResult = [status |-> "idle", err |-> NoError]

LoaderIdle ==
    /\ fs = NewFileSet
    /\ disk = <<>>
    /\ stack = <<>>
    /\ outcome = [status |-> "none", err |-> NoError]
    /\ pre = [fs |-> NewFileSet, path |-> EmptyPath, root |-> ""]
    /\ scans = <<>>
    /\ loads = 0

Init == ParserInit /\ LoaderIdle /\ ScannerIdle

Next == ParserNext

Spec == Init /\ [][Next]_vars

(* The resolver on its own: the parser is at rest, Load is called up to    *)
(* MaxLoads times on one FileSet over a disk that does not change.         *)
ParserIdle ==
    /\ tokens = <<>>
    /\ written = [family |-> "none"]
    /\ current = 0
    /\ comments = NilSlice
    /\ annotations = NilSlice
    /\ commentsMem = <<>>
    /\ annotationsMem = <<>>
    /\ file = NewFile
    /\ pc = "idle"
    /\ m = NoMessage
    /\ oneof = NoOneOf
    /\ s = NoService
    /\ err = NoError

LoadInit ==
    /\ ParserIdle
    /\ ScannerIdle
    /\ disk \in Disks
    /\ fs = NewFileSet
    /\ stack = <<>>
    /\ outcome = [status |-> "none", err |-> NoError]
    /\ pre = [fs |-> NewFileSet, path |-> EmptyPath, root |-> ""]
    /\ scans = NoScans
    /\ loads = 0

LoadSpec == LoadInit /\ [][LoaderNext]_vars

(* Scan and Parse of one text, as findAndLoad calls them (lines 92-99). *)
ScanInit ==
    /\ \E c \in TextCases :
          /\ scanner = NewScanner(c.text)
          /\ written = c.written
    /\ scanResult = [status |-> "scanning", err |-> NoError]
    /\ tokens = <<>>
    /\ current = 0
    /\ comments = NilSlice
    /\ annotations = NilSlice
    /\ commentsMem = <<>>
    /\ annotationsMem = <<>>
    /\ file = NewFile
    /\ pc = "idle"
    /\ m = NoMessage
    /\ oneof = NoOneOf
    /\ s = NoService
    /\ err = NoError
    /\ LoaderIdle

ScanNext == ScannerNext \/ ParserNext

ScanSpec == ScanInit /\ [][ScanNext]_vars

----------------------------------------------------------------------------
(* What the parser has emitted, and what the input says about it *)

\* a node's place and its two slices
Meta(n) == [kind |-> n.kind, at |-> n.Offset.StartsAt, cm |-> n.Comments, an |-> n.Annotations]

\* the fields of a member list, those inside oneof groups included
MemberMetas(fields) ==
    {Meta(fields[i]) : i \in 1..Len(fields)}
    \cup UNION {{Meta(fields[i].Items[j]) : j \in 1..Len(fields[i].Items)} :
                    i \in {k \in 1..Len(fields) : fields[k].kind = "OneOfField"}}

\* every Message, Field, OneOfField, Service and Method of the file built so far
FileMetas ==
    UNION {LET n == file.Tree[i] IN
           IF n.kind = "Message" THEN {Meta(n)} \cup MemberMetas(n.Fields)
           ELSE IF n.kind = "Service"
           THEN {Meta(n)} \cup {Meta(n.Methods[j]) : j \in 1..Len(n.Methods)}
           ELSE {} : i \in 1..Len(file.Tree)}

\* the same, with the declaration being parsed and the members it has so far
EmittedMetas ==
    FileMetas
    \cup (IF pc \in {"message", "oneof"} THEN {Meta(m.node)} \cup MemberMetas(m.node.Fields) ELSE {})
    \cup (IF pc = "oneof" THEN MemberMetas(oneof.items) ELSE {})
    \cup (IF pc = "service"
          THEN {Meta(s.node)} \cup {Meta(s.node.Methods[j]) : j \in 1..Len(s.node.Methods)}
          ELSE {})

CommentsOf(n) == View(commentsMem, n.cm)

AnnotationsOf(n) == View(annotationsMem, n.an)

\* the index of the token at a position
TokenAt(at) == CHOOSE i \in 1..Len(tokens) : tokens[i].Line = at.Line /\ tokens[i].Column = at.Column

\* the comment and annotation tokens written directly before token i: walking back,
\* a blank line (two linebreaks in a row) or any other token ends them
RECURSIVE WrittenBefore(_)
WrittenBefore(j) ==
    IF j < 1 THEN <<>>
    ELSE IF tokens[j].Type \in {"Annotation", "Comment"} THEN Append(WrittenBefore(j - 1), tokens[j])
    ELSE IF tokens[j].Type = "LineBreak"
    THEN IF j > 1 /\ tokens[j - 1].Type = "LineBreak" THEN <<>> ELSE WrittenBefore(j - 1)
    ELSE <<>>

\* the names of the annotations written directly before the declaration at a position
WrittenAnnotations(at) ==
    LET w == WrittenBefore(TokenAt(at) - 1) IN
    {w[i].Value : i \in {k \in 1..Len(w) : w[k].Type = "Annotation"}}

\* the comment lines written directly before the declaration at a position, in order
WrittenComments(at) ==
    LET first == TokenAt(at) - 1 - Len(WrittenBefore(TokenAt(at) - 1))
        IsLine(j) == tokens[j].Type = "Comment" /\ (j = 1 \/ tokens[j - 1].Type = "LineBreak")
        RECURSIVE Lines(_)
        Lines(j) == IF j >= TokenAt(at) THEN <<>>
                    ELSE IF IsLine(j) THEN <<tokens[j].Value>> \o Lines(j + 1)
                    ELSE Lines(j + 1)
        RECURSIVE Start(_)
        Start(j) == IF j < 1 THEN 1
                    ELSE IF tokens[j].Type \in {"Annotation", "Comment"} THEN Start(j - 1)
                    ELSE IF tokens[j].Type = "LineBreak"
                    THEN IF j > 1 /\ tokens[j - 1].Type = "LineBreak" THEN j + 1 ELSE Start(j - 1)
                    ELSE j + 1
    IN Lines(Start(TokenAt(at) - 1))

AnnotationNames == {"optional", "repeated"}

----------------------------------------------------------------------------
(* Claims *)

\* C1: in the File returned by Parse, FindByName(n) on a node's annotations succeeds
\* iff an annotation named n was written directly before that declaration.
C1_AnnotationsAsWritten ==
    pc = "done" =>
        \A n \in FileMetas : n.kind # "OneOfField" =>
            \A a \in AnnotationNames :
                FindByName(AnnotationsOf(n), a) <=> a \in WrittenAnnotations(n.at)

\* C2: an emitted node's Comments and Annotations never change in a later step.
C2_EmittedNodesImmutable ==
    [][\A n \in EmittedMetas :
          /\ View(commentsMem', n.cm) = View(commentsMem, n.cm)
          /\ View(annotationsMem', n.an) = View(annotationsMem, n.an)]_vars

\* C3: in the File returned by Parse, every declaration's Comments are the comment
\* lines written directly before it, in order; a comment separated from it by a
\* blank line is not among them.
C3_CommentsAsWritten ==
    pc = "done" =>
        \A n \in FileMetas : n.kind \in {"Message", "Service", "Field", "Method"} =>
            CommentsOf(n) = WrittenComments(n.at)

\* the type a written type term denotes
RECURSIVE ExpectedType(_)
ExpectedType(t) ==
    CASE t.w = "prim" -> Primitive(t.kind)
      [] t.w = "name" -> Unresolved(DottedText(t.parts))
      [] t.w = "array" -> Array(ExpectedType(t.of))
      [] t.w = "map" -> Map(t.kind, ExpectedType(t.value))

\* no map type occurs in the term
RECURSIVE NoMap(_)
NoMap(t) ==
    CASE t.w = "array" -> NoMap(t.of)
      [] t.w = "map" -> FALSE
      [] OTHER -> TRUE

\* every map in the term has a primitive key other than bool
RECURSIVE ValidKeys(_)
ValidKeys(t) ==
    CASE t.w = "array" -> ValidKeys(t.of)
      [] t.w = "map" -> t.kind \notin {"Bool", "Invalid"} /\ ValidKeys(t.value)
      [] OTHER -> TRUE

\* the Type of the one field of a type input, once the file is returned
ParsedFieldType == file.Tree[2].Fields[1].Type

\* the one method of a method input, once the file is returned
ParsedMethod == file.Tree[2].Methods[1]

\* C4: a field type written map<K,V> with K a primitive other than bool parses to
\* Map{Key: K, Value: V}; with K bool or no primitive name the parse is rejected.
C4_MapTypeParses ==
    (written.family = "type" /\ written.type.w = "map") =>
        IF ValidKeys(written.type)
        THEN /\ pc \notin {"error", "hang"}
             /\ pc = "done" => ParsedFieldType = ExpectedType(written.type)
        ELSE pc # "done"

\* C5: a field type written without map parses: a primitive name to Primitive of that
\* kind, array<T> to Array of the parse of T, any other (dotted) name to Unresolved
\* with the name as written.
C5_NonMapTypesParse ==
    (written.family = "type" /\ NoMap(written.type)) =>
        /\ pc \notin {"error", "hang"}
        /\ pc = "done" => ParsedFieldType = ExpectedType(written.type)

\* C5 witness: array<array<io.libyarp.common.Foo>> has been parsed
C5_Witness ==
    /\ pc = "done"
    /\ written.family = "type"
    /\ written.type = [w |-> "array", of |-> [w |-> "array",
                          of |-> [w |-> "name", parts |-> <<"io", "libyarp", "common", "Foo">>]]]
    /\ ParsedFieldType = Array(Array(Unresolved("io.libyarp.common.Foo")))

\* C6: ArgumentType is the dotted argument name, or "void" for empty parentheses;
\* ReturnType is the dotted return name, or "void" without a return clause;
\* ReturnStreaming is true iff stream directly follows the arrow.
C6_MethodSignature ==
    written.family = "method" =>
        /\ pc \notin {"error", "hang"}
        /\ pc = "done" =>
              /\ ParsedMethod.ArgumentType =
                    (IF written.arg = <<>> THEN "void" ELSE DottedText(written.arg))
              /\ ParsedMethod.ReturnType =
                    (IF written.ret = <<>> THEN "void" ELSE DottedText(written.ret))
              /\ ParsedMethod.ReturnStreaming = written.stream


----------------------------------------------------------------------------
(* The resolver: what a disk says, and the claims about Load *)

FileNames == {n \in DOMAIN disk : disk[n].kind = "file"}

(* The file an import string names, whatever has been loaded so far. *)
ResolvesTo(i) ==
    IF i \in FileNames THEN i
    ELSE IF (i \o ".yarp") \in FileNames THEN i \o ".yarp"
    ELSE ""

ImportsOf(n) ==
    IF disk[n].ok
    THEN {ResolvesTo(disk[n].ImportedFiles[k]) : k \in 1..Len(disk[n].ImportedFiles)} \ {""}
    ELSE {}

RECURSIVE ReachableIn(_, _)
ReachableIn(S, k) ==
    IF k = 0 THEN S
    ELSE ReachableIn(S \cup UNION {ImportsOf(n) : n \in S}, k - 1)

OnCycle == {n \in FileNames : n \in ReachableIn(ImportsOf(n), Cardinality(FileNames))}

SameContributions(f, g) ==
    /\ f.packageName = g.packageName
    /\ f.messages = g.messages
    /\ f.Messages = g.Messages
    /\ f.Services = g.Services

(* C7: loading an already-loaded file is a no-op. A Load whose path is in  *)
(* the loaded set returns nil, and a turn of processImports whose import   *)
(* target is in the loaded set goes on with the next import; neither scans *)
(* a file nor changes packageName, the name index, Messages or Services.   *)
C7_LoadedIsNoOp ==
    [][ /\ (stack = <<>> /\ loads' = loads + 1 /\ isLoaded(fs, Abs(pre'.path)))
            => /\ outcome'.status = "ok"
               /\ stack' = <<>>
               /\ scans' = NoScans
               /\ SameContributions(fs', fs)
        /\ (/\ stack # <<>>
            /\ Top.i <= Len(Top.file.ImportedFiles)
            /\ isLoaded(fs, Abs(Join(Top.path, Top.file.ImportedFiles[Top.i]))))
            => /\ outcome'.status = "running"
               /\ stack' = [stack EXCEPT ![Len(stack)].i = @ + 1]
               /\ scans' = scans
               /\ SameContributions(fs', fs) ]_vars

(* C8: cyclic imports terminate. The first Load of a file on an import     *)
(* cycle does not crash, and no file is scanned and parsed more than once  *)
(* during it.                                                              *)
C8_CyclicImportsTerminate ==
    (loads = 1 /\ pre.root \in OnCycle)
        => /\ outcome.status # "panic"
           /\ \A n \in FileNames : scans[n] <= 1

(* C9: no half-populated FileSet. After Load returned an error the FileSet *)
(* is what it was when Load was called.                                    *)
C9_NoHalfPopulatedFileSet ==
    outcome.status = "error" => fs = pre.fs

LoadReturned == loads > 0 /\ outcome.status \in {"ok", "error"}

Processed(n) == scans[n] > 0 /\ disk[n].ok

(* C10 as stated: every file scanned and parsed by a Load, the imported    *)
(* ones included, whose package differs from the set's package makes that  *)
(* Load return MixedPackagesError naming both packages.                    *)
C10_SinglePackageAcrossSet ==
    LoadReturned =>
        \A n \in FileNames :
            (Processed(n) /\ disk[n].Package # fs.packageName)
                => /\ outcome.status = "error"
                   /\ outcome.err.kind = "MixedPackagesError"
                   /\ outcome.err.Package1 = fs.packageName
                   /\ outcome.err.Package2 = disk[n].Package

RootMismatch ==
    /\ loads > 0
    /\ pre.root # ""
    /\ disk[pre.root].ok
    /\ pre.fs.packageName # ""
    /\ disk[pre.root].Package # pre.fs.packageName

(* C10 amended: the package is compared for the file a Load call scans and *)
(* parses as its root, and for no other. Such a root of another package    *)
(* makes the Load return MixedPackagesError with the path it was called    *)
(* with, the set's package and the file's package; a Load never returns    *)
(* MixedPackagesError because of a file reached through imports.           *)
C10_RootPackageChecked ==
    /\ RootMismatch
        => /\ stack = <<>>
           /\ outcome = ReturnedError(MixedPackagesError(pre.path, pre.fs.packageName,
                                                         disk[pre.root].Package))
    /\ (outcome.status = "error" /\ outcome.err.kind = "MixedPackagesError")
        => RootMismatch

C10_Witness ==
    /\ RootMismatch
    /\ outcome.status = "error"
    /\ outcome.err.kind = "MixedPackagesError"
    /\ outcome.err.Package1 = "p"
    /\ outcome.err.Package2 = "q"


Range(q) == {q[k] : k \in 1..Len(q)}

(* C11: Messages and Services hold only declarations of files of the set's *)
(* package; after a successful Load the messages of every file of another  *)
(* package that the Load scanned and parsed are found by FindMessage under *)
(* package.Name and are not in Messages, and its services are not in       *)
(* Services.                                                               *)
C11_OutputsOfSetPackage ==
    /\ \A msg \in Range(fs.Messages) : disk[msg.owner].Package = fs.packageName
    /\ \A svc \in Range(fs.Services) : disk[svc.owner].Package = fs.packageName
    /\ outcome.status = "ok" =>
         \A n \in FileNames :
            (Processed(n) /\ disk[n].Package # fs.packageName) =>
               /\ \A name \in Range(disk[n].DeclaredMessages) :
                     /\ FindMessage(fs, disk[n].Package \o "." \o name)
                            = [msg |-> MessageOf(disk[n], name), ok |-> TRUE]
                     /\ MessageOf(disk[n], name) \notin Range(fs.Messages)
               /\ \A name \in Range(disk[n].DeclaredServices) :
                     ServiceOf(disk[n], name) \notin Range(fs.Services)

C11_Witness ==
    /\ outcome.status = "ok"
    /\ fs.Messages # <<>>
    /\ \E n \in FileNames :
          /\ Processed(n)
          /\ disk[n].Package # fs.packageName
          /\ disk[n].DeclaredMessages # <<>>
          /\ FindMessage(fs, disk[n].Package \o "." \o disk[n].DeclaredMessages[1]).ok


(* The resolver is about to register what the file of the top frame        *)
(* declares: as the root of Load (one frame) or as an import.              *)
Registering == stack # <<>> /\ Top.i > Len(Top.file.ImportedFiles)

Fqn(fl, name) == fl.Package \o "." \o name

CollidingMessages(fl) ==
    {k \in 1..Len(fl.DeclaredMessages) : Fqn(fl, fl.DeclaredMessages[k]) \in DOMAIN fs.messages}

CollidingServices(fl) ==
    {k \in 1..Len(fl.DeclaredServices) : fl.DeclaredServices[k] \in fs.knownServices}

Least(S) == CHOOSE x \in S : \A y \in S : x <= y

(* No successful Load leaves two declarations under one name: every       *)
(* message of a file it scanned and parsed is the index entry of its       *)
(* fully-qualified name, and no two entries of Services share a name.      *)
NoDuplicateSurvives ==
    outcome.status = "ok" =>
       /\ \A n \in FileNames : Processed(n) =>
             \A name \in Range(disk[n].DeclaredMessages) :
                FindMessage(fs, Fqn(disk[n], name)) = [msg |-> MessageOf(disk[n], name), ok |-> TRUE]
       /\ \A i, j \in 1..Len(fs.Services) :
             fs.Services[i].Name = fs.Services[j].Name => i = j

(* C12: cross-file duplicates are rejected. When the declarations of a     *)
(* file, root or import, are registered and one of its messages has a      *)
(* fully-qualified name already in the index, the load returns the         *)
(* duplicated-definition error for that name; when none has, the file is   *)
(* of the set's package and one of its services is in the known-services   *)
(* registry, the load returns the multiple-declarations error for it; and  *)
(* no Load that registered a duplicate returns nil.                        *)
C12_DuplicatesRejected ==
    /\ []NoDuplicateSurvives
    /\ [][ Registering =>
          /\ CollidingMessages(Top.file) # {} =>
                /\ stack' = <<>>
                /\ outcome' = ReturnedError(DuplicatedDefinition(
                      Fqn(Top.file,
                          Top.file.DeclaredMessages[Least(CollidingMessages(Top.file))])))
          /\ (/\ CollidingMessages(Top.file) = {}
              /\ Top.file.Package = fs.packageName
              /\ CollidingServices(Top.file) # {}) =>
                /\ stack' = <<>>
                /\ outcome' = ReturnedError(MultipleDeclarations(
                      Top.file.DeclaredServices[Least(CollidingServices(Top.file))],
                      Top.path)) ]_vars

(* a.yarp and b.yarp of package p both declare M: the second Load fails.   *)
C12_Witness ==
    /\ loads = 2
    /\ pre.fs.messages # <<>>
    /\ outcome.status = "error"
    /\ outcome.err = DuplicatedDefinition("p.M")


(* A path that exists neither verbatim nor with .yarp appended. *)
Missing(p) == ~Exists(Abs(p)) /\ ~Exists(WithYarp(p))

ImportTarget(k) == Abs(Join(Top.path, Top.file.ImportedFiles[k]))

FirstMissingImport(n) ==
    Least({k \in 1..Len(disk[n].ImportedFiles) :
              Missing(Path(TRUE, disk[n].ImportedFiles[k]))})

(* C13: missing imports. A turn of processImports whose import target is   *)
(* missing ends the load with ImportFileNotFoundError, Source the path of  *)
(* the importing file and Path the import target, without scanning a file  *)
(* and leaving no call to go on with the later imports; the import named   *)
(* by such an error is the first missing import of the importing file; and *)
(* Load of a missing root returns SourceFileNotFoundError for its path.    *)
C13_MissingImports ==
    /\ [][ /\ (/\ stack # <<>>
               /\ Top.i <= Len(Top.file.ImportedFiles)
               /\ Missing(ImportTarget(Top.i)))
               => /\ outcome'.status = "error"
                  /\ outcome'.err.kind = "ImportFileNotFoundError"
                  /\ outcome'.err.Source = Top.path
                  /\ outcome'.err.Path = ImportTarget(Top.i)
                  /\ stack' = <<>>
                  /\ scans' = scans
           /\ (stack = <<>> /\ loads' = loads + 1 /\ Missing(pre'.path))
               => /\ outcome'.status = "error"
                  /\ outcome'.err.kind = "wrapError"
                  /\ outcome'.err.Err = SourceFileNotFoundError(pre'.path)
                  /\ stack' = <<>>
                  /\ scans' = NoScans ]_vars
    /\ [](outcome.err.kind = "ImportFileNotFoundError"
            => LET n == outcome.err.Source.name
               IN  /\ n \in FileNames
                   /\ outcome.err.Path =
                         Path(TRUE, disk[n].ImportedFiles[FirstMissingImport(n)]))

(* a.yarp imports x and then b, x is missing: the Load reports x and has   *)
(* not scanned b.yarp.                                                     *)
C13_Witness ==
    /\ outcome.status = "error"
    /\ outcome.err.kind = "ImportFileNotFoundError"
    /\ outcome.err.Source = Path(FALSE, "a.yarp")
    /\ outcome.err.Path = Path(TRUE, "x")
    /\ disk["a.yarp"].ImportedFiles = <<"x", "b">>
    /\ scans["b.yarp"] = 0


----------------------------------------------------------------------------
(* The scanner: what a text says, and the claims about Scan *)

(* C14: Scan is total. Scan never runs off its data; when it returns       *)
(* tokens, the last one is the only EOF token; when it fails, the error is *)
(* a SyntaxError.                                                          *)
C14_ScanTotal ==
    /\ scanResult.status # "panic"
    /\ scanResult.status = "done" =>
          /\ tokens # <<>>
          /\ \A k \in 1..Len(tokens) : tokens[k].Type = "EOF" <=> k = Len(tokens)
    /\ scanResult.status = "error" => scanResult.err.kind = "SyntaxError"

(* The offset of the quote that closes the literal whose content starts at *)
(* offset i: the first quote not directly after a backslash, unless a      *)
(* newline or the end of the text comes first (-1).                        *)
RECURSIVE ClosingQuote(_, _)
ClosingQuote(data, i) ==
    IF i >= Len(data) THEN -1
    ELSE IF data[i + 1] = "\n" THEN -1
    ELSE IF data[i + 1] = "\"" /\ data[i] # "\\" THEN i
    ELSE ClosingQuote(data, i + 1)

LastToken(sc) == sc.tokens[Len(sc.tokens)]

(* C15: string literals. A turn of Run that starts at a quote appends one  *)
(* StringElement whose value is the text up to the closing quote with      *)
(* every \" replaced by ", and goes on after the closing quote; without a  *)
(* closing quote it fails with SyntaxError "unterminated string".          *)
C15_StringLiterals ==
    [][ (InRun /\ NextRune = "\"") =>
          LET open == scanner.current
              close == ClosingQuote(scanner.data, open + 1)
          IN  IF close = -1
              THEN /\ scanResult'.status = "error"
                   /\ scanResult'.err.kind = "SyntaxError"
                   /\ scanResult'.err.Message = Sprintf("unterminated string", "")
              ELSE /\ scanResult'.status = "scanning"
                   /\ scanner'.current = close + 1
                   /\ Len(scanner'.tokens) = Len(scanner.tokens) + 1
                   /\ LastToken(scanner').Type = "StringElement"
                   /\ LastToken(scanner').Value =
                         Text(ReplaceAllEscapedQuotes(Chars(scanner, open + 1, close))) ]_vars

NewlinesBefore(data, off) == Cardinality({i \in 1..off : data[i] = "\n"})

LineStart(data, off) ==
    LET nl == {i \in 1..off : data[i] = "\n"}
    IN  IF nl = {} THEN 0 ELSE CHOOSE i \in nl : \A j \in nl : j <= i

(* Line and column of the character at offset off. *)
PositionOf(data, off) == <<1 + NewlinesBefore(data, off), 1 + off - LineStart(data, off)>>

NotAfter(t, u) == t.Line < u.Line \/ (t.Line = u.Line /\ t.Column <= u.Column)

(* C16: token positions. Every token a turn of Run appends carries the     *)
(* line and column of the first character of the turn, and the positions   *)
(* of the tokens never decrease.                                           *)
C16_TokenPositions ==
    /\ [][ (InRun /\ Len(scanner'.tokens) = Len(scanner.tokens) + 1) =>
              <<LastToken(scanner').Line, LastToken(scanner').Column>>
                  = PositionOf(scanner.data, scanner.current) ]_vars
    /\ [](\A i, j \in 1..Len(scanner.tokens) :
              i <= j => NotAfter(scanner.tokens[i], scanner.tokens[j]))

----------------------------------------------------------------------------
(* Parse errors *)

\* C17: every error Parse returns is a ParseError whose Token is the token at the
\* cursor where the error was detected; a map type lacking its `,` or `>` and an
\* index that does not convert to an int are no exception.
C17_ErrorsAreParseErrors ==
    pc = "error" => err.kind = "ParseError" /\ err.Token = peekAt(current)

----------------------------------------------------------------------------
(* The File Parse returns *)

\* the positions of the keyword (message or service) where a name follows it
DeclPositions(keywords) ==
    {i \in 1..(Len(tokens) - 1) :
        /\ tokens[i].Type = "Identifier" /\ tokens[i].Value \in keywords
        /\ tokens[i + 1].Type = "Identifier"}

\* the k-th smallest member of a set of positions
Nth(P, k) == CHOOSE x \in P : Cardinality({y \in P : y <= x}) = k

\* the names written after the keyword, in source order
NamesAfter(keyword) ==
    LET P == DeclPositions({keyword})
    IN [k \in 1..Cardinality(P) |-> tokens[Nth(P, k) + 1].Value]

WrittenMessages == NamesAfter("message")

WrittenServices == NamesAfter("service")

\* the inputs in which every `message` and `service` keyword opens a declaration
DeclarationsOnly == written.family \in {"declarations", "fixture"}

PairwiseDistinct(q) == \A i, j \in 1..Len(q) : q[i] = q[j] => i = j

\* the first name written a second time, as message or as service ("" if none)
FirstRepeated ==
    LET P == DeclPositions({"message", "service"})
        R == {i \in P : \E j \in P : j < i /\ tokens[j + 1].Value = tokens[i + 1].Value}
    IN IF R = {} THEN "" ELSE tokens[Nth(R, 1) + 1].Value

\* the names a lookup may be asked for
LookupNames ==
    Range(WrittenMessages) \cup Range(WrittenServices) \cup DeclNames \cup {"M", "S", ""}

\* the Tree entries of a kind that carry the name
TreeEntries(kind, name) ==
    {k \in 1..Len(file.Tree) : file.Tree[k].kind = kind /\ file.Tree[k].Name = name}

\* C18: in the File Parse returns, DeclaredMessages and DeclaredServices list the
\* declared names in declaration order, no name occurs twice across the two lists,
\* MessageByName and ServiceByName succeed exactly for the listed names and give
\* the declaration of that name; a name declared a second time, as message or as
\* service, makes Parse fail with "<name> is already defined".
C18_FileInvariant ==
    /\ pc = "done" =>
        /\ PairwiseDistinct(file.DeclaredMessages \o file.DeclaredServices)
        /\ DeclarationsOnly =>
            /\ file.DeclaredMessages = WrittenMessages
            /\ file.DeclaredServices = WrittenServices
        /\ \A name \in LookupNames :
            /\ MessageByName(file, name) <=> name \in Range(file.DeclaredMessages)
            /\ ServiceByName(file, name) <=> name \in Range(file.DeclaredServices)
            /\ MessageByName(file, name) =>
                \E k \in TreeEntries("Message", name) : file.declaredNames[name] = file.Tree[k]
            /\ ServiceByName(file, name) =>
                \E k \in TreeEntries("Service", name) : file.declaredNames[name] = file.Tree[k]
    /\ (written.family = "declarations" /\ pc \in {"done", "error"}) =>
        IF FirstRepeated = "" THEN pc = "done"
        ELSE /\ pc = "error"
             /\ err.kind = "ParseError"
             /\ err.Message = FirstRepeated \o " is already defined"

\* a file of two messages and a service between them was returned
C18_Witness ==
    /\ pc = "done" /\ written.family = "declarations"
    /\ file.DeclaredMessages = <<"B", "C">> /\ file.DeclaredServices = <<"A">>
    /\ file.Tree[3].kind = "Service"
    /\ MessageByName(file, "C") /\ ServiceByName(file, "A")

----------------------------------------------------------------------------
(* The import block *)

\* the positions, among the pieces the file was written from, of its imports and
\* of its messages and services
ImportsWritten == {i \in 1..Len(written.items) : written.items[i].k = "import"}

DeclsWritten == {i \in 1..Len(written.items) : written.items[i].k \in {"message", "service"}}

\* imports written after a message or service
LateImports == {i \in ImportsWritten : \E d \in DeclsWritten : d < i}

\* imports whose cleaned path is that of an earlier import
RepeatedImports ==
    {i \in ImportsWritten :
        \E j \in ImportsWritten : j < i /\ Clean(written.items[j].v) = Clean(written.items[i].v)}

\* a message or service declared a second time before piece i
RepeatedDeclBefore(i) ==
    \E d, e \in DeclsWritten : d < e /\ e < i /\ written.items[d].v = written.items[e].v

\* the cleaned paths of the imports, in source order
CleanedPaths ==
    [k \in 1..Cardinality(ImportsWritten) |-> Clean(written.items[Nth(ImportsWritten, k)].v)]

ImportsOnlyAtTheBeginning ==
    "imports are only allowed in the beginning of the file, after the package directive."

\* C19: Parse succeeds only if no import follows a message or service and the
\* cleaned import paths are pairwise distinct, and ImportedFiles then lists the
\* cleaned paths in source order; the first import that breaks a rule is rejected,
\* as duplicated when it repeats a cleaned path inside the block, with the
\* imports-only-at-the-beginning error when it follows a message or service.
C19_ImportBlock ==
    (written.family = "imports" /\ pc \in {"done", "error"}) =>
        LET bad == LateImports \cup RepeatedImports IN
        /\ pc = "done" =>
            /\ bad = {}
            /\ file.ImportedFiles = CleanedPaths
            /\ PairwiseDistinct(file.ImportedFiles)
        /\ (bad # {} /\ ~RepeatedDeclBefore(Nth(bad, 1))) =>
            /\ pc = "error"
            /\ err.kind = "ParseError"
            /\ err.Message = IF Nth(bad, 1) \in LateImports THEN ImportsOnlyAtTheBeginning
                              ELSE "duplicated import"

\* a file importing ./foo and bar ahead of a message was returned
C19_Witness ==
    /\ pc = "done" /\ written.family = "imports"
    /\ file.ImportedFiles = <<"foo", "bar">>
    /\ file.Tree[2].Path = "./foo"
    /\ file.DeclaredMessages = <<"M">>

----------------------------------------------------------------------------
(* Annotation values *)

\* the annotations of the one field of an annotation text, once the file is returned
ParsedFieldAnnotations == View(annotationsMem, file.Tree[2].Fields[1].Annotations)

\* C20: a text whose field carries @name(v1, v2, ...) or @name scans and parses,
\* and the field has one AnnotationValue, its Name the name written and its Value
\* the values written, in order, each with its tokens joined by single spaces
\* (no value when no parentheses were written).
C20_AnnotationValues ==
    written.family = "annotation" =>
        /\ scanResult.status \in {"scanning", "done"}
        /\ pc \notin {"error", "hang"}
        /\ pc = "done" =>
            /\ Len(ParsedFieldAnnotations) = 1
            /\ ParsedFieldAnnotations[1].Name = written.name
            /\ ParsedFieldAnnotations[1].Value = written.values

----------------------------------------------------------------------------
(* Identifier tokens *)

\* the characters a turn of Run consumed for the token it appended
TokenChars == SubSeq(scanner.data, scanner.current + 1, scanner'.current)

\* a turn of Run appended an Identifier
IdentifierAppended ==
    /\ InRun
    /\ Len(scanner'.tokens) = Len(scanner.tokens) + 1
    /\ LastToken(scanner').Type = "Identifier"

\* C21: the text of every Identifier token Scan emits starts with an ASCII letter
\* or underscore and goes on with ASCII letters, digits and underscores only; a
\* printable character such as ! $ + that cannot start an identifier yields no
\* Identifier token.
C21_IdentifiersWellFormed ==
    [][ IdentifierAppended =>
          /\ LastToken(scanner').Value = Text(TokenChars)
          /\ TokenChars # <<>>
          /\ TokenChars[1] \in Letters
          /\ \A i \in 2..Len(TokenChars) : TokenChars[i] \in Letters \/ IsDigit(TokenChars[i]) ]_vars

----------------------------------------------------------------------------
(* Pending comments *)

\* a comment was added to the pending comments
CommentAppended == comments'.len = comments.len + 1

\* the comment tokens that stand on a line of their own
OwnLineComments ==
    {tokens[i].Value : i \in {k \in 2..Len(tokens) :
        tokens[k].Type = "Comment" /\ tokens[k - 1].Type = "LineBreak"}}

\* C22: a comment token is added to the pending comments only when the token
\* directly before it is a linebreak, and the Comments of the declarations of the
\* returned File hold comments from lines of their own only; a comment after a
\* `;` on the same line (of a field, the package clause or an import) is in none.
C22_CommentsFromOwnLine ==
    /\ [][CommentAppended => (is(peek, "Comment") /\ is(peekPrevious, "LineBreak"))]_vars
    /\ [](pc = "done" =>
            \A n \in FileMetas : Range(CommentsOf(n)) \subseteq OwnLineComments)

----------------------------------------------------------------------------
(* Termination of Parse *)

\* C23: on a token sequence that ends with EOF, Parse returns a File or an error:
\* no loop of the parser goes on for ever at the end of the input, and the cursor
\* stays within the sequence or directly behind it, where peek gives the sentinel.
C23_ParseTerminates ==
    (tokens # <<>> /\ tokens[Len(tokens)].Type = "EOF") =>
        /\ pc # "hang"
        /\ current <= Len(tokens)

----------------------------------------------------------------------------
(* The order of registration *)

\* the files a file imports, directly or transitively
ImportedBy(n) == ReachableIn(ImportsOf(n), Cardinality(FileNames))

\* every message the file declares is in the index, registered for that file
AllRegistered(f, n) ==
    /\ disk[n].ok
    /\ \A name \in Range(disk[n].DeclaredMessages) :
          /\ Fqn(disk[n], name) \in DOMAIN f.messages
          /\ f.messages[Fqn(disk[n], name)] = MessageOf(disk[n], name)

\* a step put a message of the file of the top frame into the index
RegistersOwn ==
    /\ Registering
    /\ \E q \in DOMAIN fs'.messages :
          q \notin DOMAIN fs.messages /\ fs'.messages[q].owner = Top.file.id

\* the messages of a file and of what it imports in depth-first post-order: for
\* each import in source order its post-order, then the file's own messages in
\* declaration order
RECURSIVE PostOrder(_, _)
PostOrder(n, fuel) ==
    IF n = "" \/ fuel = 0 THEN <<>>
    ELSE IF ~disk[n].ok THEN <<>>
    ELSE Flatten([k \in 1..Len(disk[n].ImportedFiles) |->
                     PostOrder(ResolvesTo(disk[n].ImportedFiles[k]), fuel - 1)])
         \o [k \in 1..Len(disk[n].DeclaredMessages) |->
                MessageOf(disk[n], disk[n].DeclaredMessages[k])]

\* the entries of a list whose declaring file is of the set's package
OfSetPackage(q) == SelectSeq(q, LAMBDA msg : disk[msg.owner].Package = fs.packageName)

\* C24: whenever a message of a file F enters the fully-qualified name index, all
\* messages of every file F imports, directly or transitively, are in the index
\* already; and a Load that returns nil has appended to Messages the declarations of
\* the set's package in depth-first post-order of the imports of its root, each
\* file's own in declaration order.
C24_ImportsRegisteredFirst ==
    /\ [][RegistersOwn => \A g \in ImportedBy(Top.file.id) : AllRegistered(fs, g)]_vars
    /\ [](outcome.status = "ok" =>
            fs.Messages = pre.fs.Messages
                          \o OfSetPackage(PostOrder(pre.root, Cardinality(FileNames) + 1)))

\* a.yarp imports b.yarp, which imports c.yarp, all of one package: the Load
\* returned with the messages of c, then b, then a
C24_Witness ==
    /\ outcome.status = "ok"
    /\ Len(fs.Messages) = 4
    /\ fs.Messages[1] = MessageOf(disk["c.yarp"], "C")
    /\ fs.Messages[2] = MessageOf(disk["c.yarp"], "D")
    /\ fs.Messages[3] = MessageOf(disk["b.yarp"], "B")
    /\ fs.Messages[4] = MessageOf(disk["a.yarp"], "A")

====
